---- MODULE Spec2Model ----
(***************************************************************************)
(* mysql-baileys: the typed key-value credential store.                    *)
(*                                                                         *)
(* The repository holds several implementations of the same store over one *)
(* MySQL database:                                                         *)
(*   - the single-connection legacy store  (unnamed/part_002),             *)
(*   - the pooled, cached legacy store     (src/Mysql/index.ts),           *)
(*   - the normalized, cached store        (src/Mysql/optimized.ts),       *)
(*   - the per-session normalized store    (unnamed/part_003),             *)
(* and three migrations from the legacy table to the normalized tables     *)
(* (optimized.ts migrateFromLegacy, Utils/migration.ts, the SQL procedure  *)
(* MigrateLegacyAuthData).  Each gets its own specification over the       *)
(* shared state below.                                                     *)
(***************************************************************************)
EXTENDS Integers, Sequences, FiniteSets, TLC

VARIABLES
    devices,      \* table devices: rows [id, whatsapp_id, session]
    nextId,       \* AUTO_INCREMENT counter of devices.id
    keyRows,      \* the six key tables: rows [table, key_id, device_id, session, value]
    authRows,     \* the legacy table auth: rows [session, id, value]
    keyCache,     \* optimized.ts keyCache: cache key -> [data, timestamp]
    dataCache,    \* index.ts dataCache:    cache key -> [data, timestamp]
    deviceId,     \* optimized.ts closure variable deviceId, per state object
    regId,        \* creds.registrationId of each session's state object
    now,          \* Date.now()
    hist,         \* the last completed calls, newest last
    nops,         \* number of calls made
    q,            \* one run of a query() retry loop
    mig           \* one legacy row taken through a migration

vars == << devices, nextId, keyRows, authRows, keyCache, dataCache, deviceId,
           regId, now, hist, nops, q, mig >>

storeVars == << devices, nextId, keyRows, authRows, keyCache, dataCache,
                deviceId, regId, now, hist, nops >>

----------------------------------------------------------------------------
(* Bounds of the model.                                                    *)

MaxOps == 3          \* calls per behaviour
MaxTicks == 1        \* clock steps of TickMs
MaxFails == 6        \* longest run of consecutive failing executions
HistLen == 2         \* calls remembered in hist
MaxLegacyRows == 3   \* key rows of the legacy table before a migration
MaxRerunRows == 1    \* key rows of the legacy table before the first of several runs
MaxRowsEach == 1     \* key rows of each session in a legacy table of several sessions
MaxRaceRetries == 1  \* statements that fail once while set calls race
MaxHandles == 4      \* connections and pools opened per behaviour
MaxConnCalls == 4    \* calls and closed connections per behaviour

(* Program constants.                                                      *)

CACHE_TTL == 300000            \* 5 minutes
TickMs == CACHE_TTL            \* one clock step expires every cache entry
BatchThreshold == 10           \* part_002 keys.get: ids.length > 10
OptimizedMaxRetries == 5       \* MYSQL_OPTIMIZATIONS.retryConfig.maxRetries
FallbackDeviceId == 1          \* getDeviceId: deviceId = 1

Sessions == {"s1", "s2"}
NoDevice == 0                  \* deviceId === null

----------------------------------------------------------------------------
(* JavaScript values and the JSON codec.                                   *)
(*                                                                         *)
(* A value is null, a Buffer, or a plain object / JSON tree.  The tree of  *)
(* a JSON text and the plain object JSON.parse makes of it are the same    *)
(* thing; what the codec converts is the Buffer: to the tagged envelope    *)
(* {type: 'Buffer', data: <base64>} and back.                              *)

Null == [k |-> "null"]
Buf(b) == [k |-> "Buffer", bytes |-> b]
JArr(b) == [k |-> "array", items |-> b]
JStr(c) == [k |-> "string", chars |-> c]
JObj(d) == [k |-> "object", type |-> "Buffer", data |-> d]

Pad == 64                      \* the base64 character '='

(* Buffer.prototype.toString('base64'): three bytes to four sextets.       *)
RECURSIVE toBase64(_)
toBase64(b) ==
    IF Len(b) = 0 THEN << >>
    ELSE IF Len(b) = 1 THEN
        << b[1] \div 4, (b[1] % 4) * 16, Pad, Pad >>
    ELSE IF Len(b) = 2 THEN
        << b[1] \div 4, (b[1] % 4) * 16 + (b[2] \div 16), (b[2] % 16) * 4, Pad >>
    ELSE
        << b[1] \div 4, (b[1] % 4) * 16 + (b[2] \div 16),
           (b[2] % 16) * 4 + (b[3] \div 64), b[3] % 64 >>
        \o toBase64(SubSeq(b, 4, Len(b)))

(* Buffer.from(str, 'base64'): four sextets to three bytes, '=' ends it.   *)
RECURSIVE fromBase64(_)
fromBase64(c) ==
    IF Len(c) < 4 THEN << >>
    ELSE IF c[3] = Pad THEN
        << c[1] * 4 + (c[2] \div 16) >>
    ELSE IF c[4] = Pad THEN
        << c[1] * 4 + (c[2] \div 16), (c[2] % 16) * 16 + (c[3] \div 4) >>
    ELSE
        << c[1] * 4 + (c[2] \div 16), (c[2] % 16) * 16 + (c[3] \div 4),
           (c[3] % 4) * 64 + c[4] >>
        \o fromBase64(SubSeq(c, 5, Len(c)))

(* Buffer.prototype.toJSON, which JSON.stringify applies before the        *)
(* replacer sees the value.                                                *)
toJSON(v) == IF v.k = "Buffer" THEN JObj(JArr(v.bytes)) ELSE v

(* BufferJSON.replacer: value?.type === 'Buffer' && Array.isArray(data).   *)
replacer(v) ==
    IF v.k = "object" /\ v.data.k = "array"
    THEN JObj(JStr(toBase64(v.data.items)))
    ELSE v

(* BufferJSON.reviver: value?.type === 'Buffer' -> Buffer.from(data,       *)
(* 'base64'); Buffer.from of an array ignores the encoding.                *)
reviver(v) ==
    IF v.k = "object"
    THEN IF v.data.k = "string" THEN Buf(fromBase64(v.data.chars))
                                ELSE Buf(v.data.items)
    ELSE v

(* JSON.stringify(value, BufferJSON.replacer) and JSON.stringify(value).   *)
stringifyReplacer(v) == replacer(toJSON(v))
stringifyPlain(v) == toJSON(v)

(* JSON.parse(text, BufferJSON.reviver) and JSON.parse(text).              *)
parseReviver(t) == reviver(t)
parsePlain(t) == t

(* What a call that throws leaves in place of a value.                     *)
Thrown == [k |-> "thrown"]

(* Text that is not JSON (a value cut off by the column size).             *)
Text == [k |-> "text"]

(* JSON.parse(row.value, BufferJSON.reviver) of a text column.             *)
jsonParse(t) == IF t = Text THEN Thrown ELSE parseReviver(t)

(* A number, NaN, and a Uint8Array.                                        *)
Number(n) == [k |-> "number", n |-> n]
NaN == [k |-> "NaN"]
Uint8Array(bytes) == [k |-> "Uint8Array", bytes |-> bytes]

(* An app-state-sync-key as the callers hand it over and as it is stored;  *)
(* a field that is absent is Null.                                         *)
Fingerprint(rawId, currentIndex, deviceIndexes) ==
    [k |-> "fingerprint", rawId |-> rawId, currentIndex |-> currentIndex,
     deviceIndexes |-> deviceIndexes]
AppDataSync(keyData, fingerprint, timestamp) ==
    [k |-> "app", keyData |-> keyData, fingerprint |-> fingerprint,
     timestamp |-> timestamp]
AppKey(fingerprint) == AppDataSync(JArr(<< 1, 2 >>), fingerprint, Number(42))
AppKeys == {AppKey(Fingerprint(Number(1), Number(2), JArr(<< 0 >>))),
            AppKey(Null)}

(* parseInt(timestamp, 10): the leading decimal digits, NaN without one.   *)
RECURSIVE digitsValue(_, _)
digitsValue(chars, acc) ==
    IF Len(chars) = 0 \/ chars[1] > 9 THEN acc
    ELSE digitsValue(Tail(chars), acc * 10 + chars[1])
parseInt(chars) ==
    IF Len(chars) = 0 \/ chars[1] > 9 THEN NaN
    ELSE Number(digitsValue(chars, 0))

(* parseTimestamp: a string is parsed, everything else is returned.        *)
parseTimestamp(timestamp) ==
    IF timestamp.k = "string" THEN parseInt(timestamp.chars) ELSE timestamp

(* allocate: the while loop counts the '=' at the end of the string, and   *)
(* the result is a zero-filled array of the decoded length.                *)
RECURSIVE padCount(_, _)
padCount(str, p) ==
    IF p >= 0 /\ p % 4 > 1 /\ str[p + 1] = Pad THEN 1 + padCount(str, p - 1)
    ELSE 0
allocate(str) ==
    IF Len(str) = 0 THEN Uint8Array(<< 0 >>)
    ELSE Uint8Array([i \in 1..((Len(str) * 3) \div 4
                               - padCount(str, Len(str) - 1)) |-> 0])

(* f.rawId || 0.                                                           *)
orZero(v) == IF v = Null \/ v = Number(0) THEN Number(0) ELSE v

(* fromObject: args.fingerprint.deviceIndexes is read first, a TypeError   *)
(* without a fingerprint; keyData is kept when Array.isArray holds of it,  *)
(* allocated when it is a string and an empty array otherwise; rawId is    *)
(* taken for currentIndex too.                                             *)
fromObject(args) ==
    IF "fingerprint" \notin DOMAIN args \/ args.fingerprint = Null THEN Thrown
    ELSE LET f == args.fingerprint
         IN AppDataSync(
                IF args.keyData.k = "string" THEN allocate(args.keyData.chars)
                ELSE IF args.keyData.k = "array" THEN args.keyData
                ELSE Uint8Array(<< >>),
                Fingerprint(orZero(f.rawId), orZero(f.rawId),
                            IF f.deviceIndexes.k = "array" THEN f.deviceIndexes
                            ELSE JArr(<< >>)),
                parseTimestamp(args.timestamp))

(* if (type === 'app-state-sync-key' && value) value = fromObject(value).  *)
decodeAs(type, value) ==
    IF type = "app-state-sync-key" /\ value \notin {Null, Thrown}
    THEN fromObject(value)
    ELSE value

(* A payload that is a bare integer: valid JSON, no entry of any variant.  *)
BareInteger == Number(5)

(* Payloads the callers write.                                             *)
V1 == Buf(<< 1, 2, 3, 4, 5 >>)
V2 == Buf(<< 255, 0 >>)
Values == {V1, V2}

SetIds == {"3"}                          \* identifiers the callers write
GetIdSets == {{"3"}, {"3", "4"}}         \* identifier lists the callers read
OptTypes == {"pre-key", "sender-key-memory"}

(* What fails during one call: the lookup of the device id, the statement  *)
(* against the normalized table, the statement against the legacy table.   *)
(* A failing statement is one that query() gave up on.                     *)
FailModes == { {}, {"normalized"}, {"device", "normalized", "legacy"} }

----------------------------------------------------------------------------
(* The history of completed calls.                                         *)

NoResult == [i \in {} |-> Null]

(* op, s, type, ids, value: the call; fail: what failed during it; old:    *)
(* what a get of the identifier would have returned just before a set;     *)
(* ok: the call returned (FALSE: it threw); res: the mapping a get         *)
(* returned; again: the call before it was the same call, under the same   *)
(* failures, and returned.                                                 *)
Call(op, s, type, ids, value, fail, old, ok, res) ==
    [op |-> op, s |-> s, type |-> type, ids |-> ids, value |-> value,
     fail |-> fail, old |-> old, ok |-> ok, res |-> res,
     again |-> /\ Len(hist) > 0
               /\ hist[Len(hist)].op = op /\ hist[Len(hist)].s = s
               /\ hist[Len(hist)].type = type /\ hist[Len(hist)].ids = ids
               /\ hist[Len(hist)].value = value /\ hist[Len(hist)].ok
               /\ hist[Len(hist)].fail = fail]

Push(h, e) ==
    LET a == Append(h, e)
    IN IF Len(a) > HistLen THEN Tail(a) ELSE a

----------------------------------------------------------------------------
(* The tables.                                                             *)

NoTable == ""

(* tableMap of readKeyData and writeKeyData; undefined for other names.    *)
tableMap(type) ==
    CASE type = "sender-key" -> "sender_keys"
      [] type = "session" -> "sessions"
      [] type = "sender-key-memory" -> "sender_key_memory"
      [] type = "pre-key" -> "pre_keys"
      [] type = "app-state-sync-version" -> "app_state_sync_versions"
      [] type = "app-state-sync-key" -> "app_state_sync_keys"
      [] OTHER -> NoTable

(* FOREIGN KEY (device_id) REFERENCES devices(id).                         *)
deviceExists(d) == \E r \in devices : r.id = d

(* INSERT INTO <table> (key_id, value, device_id, session) ...             *)
(* ON DUPLICATE KEY UPDATE value = VALUES(value); PRIMARY KEY (key_id,     *)
(* device_id).                                                             *)
insertKey(rows, table, key_id, value, device_id, session) ==
    LET dup == {r \in rows : r.table = table /\ r.key_id = key_id
                             /\ r.device_id = device_id}
    IN IF dup = {}
       THEN rows \cup {[table |-> table, key_id |-> key_id,
                        device_id |-> device_id, session |-> session,
                        value |-> value]}
       ELSE (rows \ dup) \cup {[r EXCEPT !.value = value] : r \in dup}

(* DELETE FROM <table> WHERE key_id = ? AND device_id = ?                  *)
deleteKey(rows, table, key_id, device_id) ==
    {r \in rows : ~(r.table = table /\ r.key_id = key_id
                    /\ r.device_id = device_id)}

(* INSERT INTO auth (session, id, value) ... ON DUPLICATE KEY UPDATE       *)
(* value = ?; UNIQUE KEY (session, id).                                    *)
insertAuth(rows, session, id, value) ==
    LET dup == {r \in rows : r.session = session /\ r.id = id}
    IN IF dup = {}
       THEN rows \cup {[session |-> session, id |-> id, value |-> value]}
       ELSE (rows \ dup) \cup {[r EXCEPT !.value = value] : r \in dup}

(* DELETE FROM auth WHERE id = ? AND session = ?                           *)
deleteAuth(rows, session, id) ==
    {r \in rows : ~(r.session = session /\ r.id = id)}

(* SELECT value FROM auth WHERE id = ? AND session = ?: data[0]?.value.    *)
selectAuth(rows, session, id) ==
    IF \E r \in rows : r.session = session /\ r.id = id
    THEN (CHOOSE r \in rows : r.session = session /\ r.id = id).value
    ELSE Null

----------------------------------------------------------------------------
(* The normalized, cached store (src/Mysql/optimized.ts).                  *)

(* keyCache.clear(): no entry.                                             *)
EmptyCache == [c \in {} |-> Null]

getCacheKey(type, id, session) == type \o "-" \o id \o "-" \o session

getFromCache(cache, key, t) ==
    IF key \in DOMAIN cache /\ (t - cache[key].timestamp) < CACHE_TTL
    THEN cache[key].data
    ELSE Null

setCache(cache, key, data, t) ==
    [c \in DOMAIN cache \cup {key} |->
        IF c = key THEN [data |-> data, timestamp |-> t] ELSE cache[c]]

deleteCache(cache, key) == [c \in DOMAIN cache \ {key} |-> cache[c]]

(* getDeviceId: the cached id, else the id of the session's device row,    *)
(* else (no row, or the lookup failed) 1.  LIMIT 1 without ORDER BY: the   *)
(* row with the smallest id.                                               *)
getDeviceId(s, lookupFails) ==
    IF deviceId[s] # NoDevice THEN deviceId[s]
    ELSE IF ~lookupFails /\ (\E r \in devices : r.session = s)
    THEN CHOOSE d \in {r.id : r \in {x \in devices : x.session = s}} :
            \A r \in devices : r.session = s => d <= r.id
    ELSE FallbackDeviceId

(* readLegacyData: the json column comes back parsed, is stringified and   *)
(* parsed again with the reviver; every error is swallowed into null.      *)
readLegacyData(s, id, fails) ==
    IF fails THEN Null
    ELSE LET v == selectAuth(authRows, s, id)
         IN IF v = Null THEN Null ELSE parseReviver(stringifyPlain(v))

(* What readKeyData returns for one identifier when nothing fails.         *)
optVisible(s, type, id) ==
    LET c == getFromCache(keyCache, getCacheKey(type, id, s), now)
        d == getDeviceId(s, FALSE)
        rows == {r \in keyRows : r.table = tableMap(type) /\ r.device_id = d
                                 /\ r.key_id = id}
    IN IF c # Null THEN c
       ELSE IF rows # {} THEN parseReviver((CHOOSE r \in rows : TRUE).value)
       ELSE Null

(* writeKeyData for a data set of one entry {type: {id: value}}.           *)
writeKeyData(s, type, id, value, fail) ==
    LET d == getDeviceId(s, "device" \in fail)
        table == tableMap(type)
        key == getCacheKey(type, id, s)
        name == type \o "-" \o id
        stmtOk == "normalized" \notin fail
        insertOk == table = NoTable \/ (stmtOk /\ deviceExists(d))
        deleteOk == table = NoTable \/ stmtOk
        done(ok) == hist' = Push(hist, Call("set", s, type, {id}, value, fail,
                                            optVisible(s, type, id), ok, NoResult))
    IN /\ nops < MaxOps
       /\ nops' = nops + 1
       /\ deviceId' = [deviceId EXCEPT ![s] = d]
       /\ UNCHANGED << devices, nextId, dataCache, regId, now >>
       /\ IF value # Null
          THEN IF insertOk
               THEN /\ keyRows' = IF table = NoTable THEN keyRows
                                  ELSE insertKey(keyRows, table, id,
                                                 stringifyReplacer(value), d, s)
                    /\ keyCache' = setCache(keyCache, key, value, now)
                    /\ UNCHANGED authRows
                    /\ done(TRUE)
               ELSE IF "legacy" \in fail
               THEN UNCHANGED << keyRows, keyCache, authRows >> /\ done(FALSE)
               ELSE /\ authRows' = insertAuth(authRows, s, name,
                                              stringifyReplacer(value))
                    /\ UNCHANGED << keyRows, keyCache >>
                    /\ done(TRUE)
          ELSE IF deleteOk
               THEN /\ keyRows' = IF table = NoTable THEN keyRows
                                  ELSE deleteKey(keyRows, table, id, d)
                    /\ keyCache' = deleteCache(keyCache, key)
                    /\ UNCHANGED authRows
                    /\ done(TRUE)
               ELSE IF "legacy" \in fail
               THEN UNCHANGED << keyRows, keyCache, authRows >> /\ done(FALSE)
               ELSE /\ authRows' = deleteAuth(authRows, s, name)
                    /\ UNCHANGED << keyRows, keyCache >>
                    /\ done(TRUE)

(* readKeyData.  A row that does not decode throws inside the try block:  *)
(* the rows decoded before it (the result order is the server's) stay in   *)
(* the result, and the catch block reads every uncached identifier from    *)
(* the legacy table, where fromObject is called unguarded.                 *)
readKeyData(s, type, ids, fail) ==
    LET cached(id) == getFromCache(keyCache, getCacheKey(type, id, s), now)
        uncachedIds == {id \in ids : cached(id) = Null}
        d == getDeviceId(s, "device" \in fail)
        table == tableMap(type)
        rows == {r \in keyRows : r.table = table /\ r.device_id = d
                                 /\ r.key_id \in uncachedIds}
        rowValue(id) ==
            decodeAs(type, jsonParse((CHOOSE r \in rows : r.key_id = id).value))
        good == {r.key_id : r \in {x \in rows : rowValue(x.key_id) # Thrown}}
        queryFails == "normalized" \in fail
        caught == queryFails \/ good # {r.key_id : r \in rows}
        legacy(id) == readLegacyData(s, type \o "-" \o id, "legacy" \in fail)
        legacyFound == IF caught THEN {id \in uncachedIds : legacy(id) # Null}
                       ELSE {}
        legacyGood == {id \in legacyFound : decodeAs(type, legacy(id)) # Thrown}
        throws == legacyGood # legacyFound
        fetched(id) == IF id \in legacyFound THEN decodeAs(type, legacy(id))
                       ELSE rowValue(id)
    IN \E kept \in (IF queryFails THEN {{}}
                    ELSE IF caught THEN SUBSET good ELSE {good}),
          keptLegacy \in (IF throws THEN SUBSET legacyGood ELSE {legacyGood}) :
          LET found == kept \cup keptLegacy
              res == [id \in (ids \ uncachedIds) \cup found |->
                         IF id \in uncachedIds THEN fetched(id) ELSE cached(id)]
              newKeys == {getCacheKey(type, id, s) : id \in found}
              idOf(c) == CHOOSE id \in found : getCacheKey(type, id, s) = c
          IN /\ nops < MaxOps
             /\ nops' = nops + 1
             /\ deviceId' = IF uncachedIds = {} THEN deviceId
                            ELSE [deviceId EXCEPT ![s] = d]
             /\ keyCache' = [c \in DOMAIN keyCache \cup newKeys |->
                                IF c \in newKeys
                                THEN [data |-> fetched(idOf(c)), timestamp |-> now]
                                ELSE keyCache[c]]
             /\ hist' = Push(hist, Call("get", s, type, ids, Null, fail, Null,
                                        ~throws, IF throws THEN NoResult ELSE res))
             /\ UNCHANGED << devices, nextId, keyRows, authRows, dataCache, regId,
                             now >>

(* deviceCache, a module-level Map like keyCache and cleared with it: its  *)
(* entries are kept in keyCache under their own keys `device-${session}`.  *)
(* The code stores the credential alone; timestamp is the time of the      *)
(* call, which no code reads.                                              *)
deviceCacheKey(s) == "device-" \o s

(* The credential as far as the device row needs it.                       *)
Creds(s) == [k |-> "creds", registrationId |-> regId[s]]

(* saveDeviceData: INSERT INTO devices ... ON DUPLICATE KEY UPDATE every   *)
(* field, session included; whatsapp_id is UNIQUE.  Then the device id is  *)
(* read back by session.  On an error the credential goes to the legacy    *)
(* table instead.                                                          *)
savedDevices(s) ==
    LET wid == ToString(regId[s])
        dup == {r \in devices : r.whatsapp_id = wid}
    IN IF dup = {}
       THEN devices \cup {[id |-> nextId, whatsapp_id |-> wid, session |-> s,
                           registration_id |-> regId[s]]}
       ELSE (devices \ dup) \cup
            {[r EXCEPT !.session = s, !.registration_id = regId[s]] : r \in dup}

(* SELECT id FROM devices WHERE session = ? LIMIT 1.                       *)
deviceOf(devs, s) ==
    LET mine == {r.id : r \in {x \in devs : x.session = s}}
    IN IF mine = {} THEN NoDevice
       ELSE CHOOSE d \in mine : \A e \in mine : d <= e

saveDeviceData(s, fail) ==
    LET dup == {r \in devices : r.whatsapp_id = ToString(regId[s])}
        saved == savedDevices(s)
        done(ok) ==
            /\ hist' = Push(hist, Call("saveCreds", s, "", {}, Null, fail, Null,
                                       ok, NoResult))
            /\ keyCache' = IF ok THEN deleteCache(keyCache, deviceCacheKey(s))
                           ELSE keyCache
    IN /\ nops < MaxOps
       /\ nops' = nops + 1
       /\ UNCHANGED << keyRows, dataCache, regId, now >>
       /\ IF "normalized" \notin fail
          THEN /\ devices' = saved
               /\ nextId' = IF dup = {} THEN nextId + 1 ELSE nextId
               /\ deviceId' = [deviceId EXCEPT ![s] = deviceOf(saved, s)]
               /\ UNCHANGED authRows
               /\ done(TRUE)
          ELSE IF "legacy" \in fail
          THEN UNCHANGED << devices, nextId, deviceId, authRows >> /\ done(FALSE)
          ELSE /\ authRows' = insertAuth(authRows, s, "creds",
                                         stringifyReplacer(Creds(s)))
               /\ UNCHANGED << devices, nextId, deviceId >>
               /\ done(TRUE)

(* String.prototype.startsWith, and LIKE 'prefix%'.                        *)
startsWith(str, pat) == Len(str) >= Len(pat) /\ SubSeq(str, 1, Len(pat)) = pat

(* String.prototype.includes.                                              *)
includes(str, pat) ==
    \E i \in 1..Len(str) :
        i + Len(pat) - 1 <= Len(str) /\ SubSeq(str, i, i + Len(pat) - 1) = pat

(* readDeviceData: the device row of the session, else the 'creds' row of  *)
(* the legacy table.                                                       *)
readDeviceData(s) ==
    IF \E r \in devices : r.session = s
    THEN [k |-> "creds",
          registrationId |->
              (CHOOSE r \in devices :
                  r.session = s /\ r.id = deviceOf(devices, s)).registration_id]
    ELSE readLegacyData(s, "creds", FALSE)

(* useMySQLAuthStateOptimized: creds = await readDeviceData() ||           *)
(* initAuthCreds().  readDeviceData returns the entry of deviceCache when  *)
(* there is one, whatever its age; a device row that it finds sets         *)
(* deviceId and is cached.  Null: a new credential.                        *)
CreateState(s) ==
    LET cacheKey == deviceCacheKey(s)
        found == \E r \in devices : r.session = s
        creds == IF cacheKey \in DOMAIN keyCache THEN keyCache[cacheKey].data
                 ELSE readDeviceData(s)
    IN /\ nops < MaxOps
       /\ nops' = nops + 1
       /\ IF cacheKey \notin DOMAIN keyCache /\ found
          THEN /\ deviceId' = [deviceId EXCEPT ![s] = deviceOf(devices, s)]
               /\ keyCache' = setCache(keyCache, cacheKey, creds, now)
          ELSE UNCHANGED << deviceId, keyCache >>
       /\ hist' = Push(hist, Call("creds", s, "", {}, Null, {}, Null, TRUE,
                                  [i \in {"creds"} |-> creds]))
       /\ UNCHANGED << devices, nextId, keyRows, authRows, dataCache, regId, now >>

(* The rows of the session in sender_key_memory and, where writeKeyData    *)
(* fell back to it, in the legacy table.                                   *)
senderKeyMemoryRows(s) ==
    {r \in keyRows : r.table = "sender_key_memory" /\ r.session = s}
    \cup {r \in authRows : r.session = s
                            /\ startsWith(r.id, "sender-key-memory-")}

(* What clear, removeCreds and clearSenderKeyMemory find when called.      *)
Before(s) ==
    [devices |-> devices, creds |-> readDeviceData(s),
     memory |-> Cardinality(senderKeyMemoryRows(s))]

(* result.affectedRows of a DELETE.                                        *)
Affected(n) == [i \in {"affectedRows"} |-> n]

(* clearAll.                                                               *)
clearAll(s, fail) ==
    LET currentDeviceId == getDeviceId(s, "device" \in fail)
        done(ok) == hist' = Push(hist, Call("clear", s, "", {}, Null, fail,
                                            Before(s), ok, NoResult))
    IN /\ nops < MaxOps
       /\ nops' = nops + 1
       /\ deviceId' = [deviceId EXCEPT ![s] = currentDeviceId]
       /\ UNCHANGED << devices, nextId, dataCache, regId, now >>
       /\ IF "normalized" \notin fail
          THEN /\ keyRows' = {r \in keyRows : r.device_id # currentDeviceId}
               /\ keyCache' = EmptyCache
               /\ UNCHANGED authRows
               /\ done(TRUE)
          ELSE IF "legacy" \in fail
          THEN UNCHANGED << keyRows, keyCache, authRows >> /\ done(FALSE)
          ELSE /\ authRows' = {r \in authRows :
                                  ~(r.id # "creds" /\ r.session = s)}
               /\ keyCache' = EmptyCache
               /\ UNCHANGED keyRows
               /\ done(TRUE)

(* removeAll; DELETE FROM devices cascades to the key tables.              *)
removeAll(s, fail) ==
    LET currentDeviceId == getDeviceId(s, "device" \in fail)
        removed == {r.id : r \in {x \in devices : x.session = s}}
        done(ok) == hist' = Push(hist, Call("removeCreds", s, "", {}, Null, fail,
                                            Before(s), ok, NoResult))
    IN /\ nops < MaxOps
       /\ nops' = nops + 1
       /\ UNCHANGED << nextId, dataCache, regId, now >>
       /\ IF "normalized" \notin fail
          THEN /\ keyRows' = {r \in keyRows : r.device_id # currentDeviceId
                                               /\ r.device_id \notin removed}
               /\ devices' = {r \in devices : r.session # s}
               /\ keyCache' = EmptyCache
               /\ deviceId' = [deviceId EXCEPT ![s] = NoDevice]
               /\ UNCHANGED authRows
               /\ done(TRUE)
          ELSE IF "legacy" \in fail
          THEN /\ deviceId' = [deviceId EXCEPT ![s] = currentDeviceId]
               /\ UNCHANGED << keyRows, devices, keyCache, authRows >>
               /\ done(FALSE)
          ELSE /\ authRows' = {r \in authRows : r.session # s}
               /\ keyCache' = EmptyCache
               /\ deviceId' = [deviceId EXCEPT ![s] = NoDevice]
               /\ UNCHANGED << keyRows, devices >>
               /\ done(TRUE)

(* clearSenderKeyMemory: the result of the DELETE that was executed.       *)
clearSenderKeyMemory(s, fail) ==
    LET currentDeviceId == getDeviceId(s, "device" \in fail)
        deleted == {r \in keyRows : r.table = "sender_key_memory"
                                    /\ r.device_id = currentDeviceId}
        fallback == {r \in authRows : r.session = s
                                      /\ startsWith(r.id, "sender-key-memory-")}
        done(ok, res) == hist' = Push(hist, Call("clearSenderKeyMemory", s,
                                                 "sender-key-memory", {}, Null,
                                                 fail, Before(s), ok, res))
    IN /\ nops < MaxOps
       /\ nops' = nops + 1
       /\ deviceId' = [deviceId EXCEPT ![s] = currentDeviceId]
       /\ UNCHANGED << devices, nextId, dataCache, regId, now >>
       /\ IF "normalized" \notin fail
          THEN /\ keyRows' = keyRows \ deleted
               /\ keyCache' = [c \in {k \in DOMAIN keyCache :
                                         ~includes(k, "sender-key-memory")} |->
                                  keyCache[c]]
               /\ UNCHANGED authRows
               /\ done(TRUE, Affected(Cardinality(deleted)))
          ELSE IF "legacy" \in fail
          THEN UNCHANGED << keyRows, keyCache, authRows >>
               /\ done(FALSE, NoResult)
          ELSE /\ authRows' = authRows \ fallback
               /\ UNCHANGED << keyRows, keyCache >>
               /\ done(TRUE, Affected(Cardinality(fallback)))

(* Time passes.                                                            *)
Tick ==
    /\ now + TickMs <= MaxTicks * TickMs
    /\ now' = now + TickMs
    /\ UNCHANGED << devices, nextId, keyRows, authRows, keyCache, dataCache,
                    deviceId, regId, hist, nops >>


----------------------------------------------------------------------------
(* The pooled, cached legacy store (src/Mysql/index.ts).                   *)

(* What fails during one call of a legacy store: nothing, or the statement *)
(* against the legacy table.                                               *)
LegacyFailModes == { {}, {"legacy"} }

(* createCacheKey: md5 of `${session}:${id}`; the digest is taken to be    *)
(* injective, so the digested text stands for it.                          *)
createCacheKey(session, id) == session \o ":" \o id

isValidCache(key) ==
    key \in DOMAIN dataCache /\ (now - dataCache[key].timestamp) < CACHE_TTL

(* readData: the cached data, else the json column as the driver returns   *)
(* it (parsed, without a reviver); every error is swallowed into null.     *)
poolReadData(s, id, fails) ==
    IF isValidCache(createCacheKey(s, id)) THEN dataCache[createCacheKey(s, id)].data
    ELSE IF fails THEN Null
    ELSE parsePlain(selectAuth(authRows, s, id))

(* keys.get: data[id] = value for every requested id, null included.       *)
PoolGet(s, type, ids, fail) ==
    LET name(id) == type \o "-" \o id
        value(id) == poolReadData(s, name(id), "legacy" \in fail)
        fetched == {id \in ids : ~isValidCache(createCacheKey(s, name(id)))
                                 /\ value(id) # Null}
        newKeys == {createCacheKey(s, name(id)) : id \in fetched}
        idOf(c) == CHOOSE id \in fetched : createCacheKey(s, name(id)) = c
        throws == \E id \in ids : decodeAs(type, value(id)) = Thrown
        res == IF throws THEN NoResult
               ELSE [id \in ids |-> decodeAs(type, value(id))]
    IN /\ nops < MaxOps
       /\ nops' = nops + 1
       /\ dataCache' = [c \in DOMAIN dataCache \cup newKeys |->
                           IF c \in newKeys
                           THEN [data |-> value(idOf(c)), timestamp |-> now]
                           ELSE dataCache[c]]
       /\ hist' = Push(hist, Call("get", s, type, ids, Null, fail, Null, ~throws,
                                  res))
       /\ UNCHANGED << devices, nextId, keyRows, authRows, keyCache, deviceId,
                       regId, now >>

(* keys.set for a data set of one entry: the cache is updated when the     *)
(* statement is issued, before it resolves; the statement runs on the      *)
(* pool's prepared statement, outside the transaction that is rolled back. *)
PoolSet(s, type, id, value, fail) ==
    LET name == type \o "-" \o id
        key == createCacheKey(s, name)
        stmtOk == "legacy" \notin fail
        old == poolReadData(s, name, FALSE)
    IN /\ nops < MaxOps
       /\ nops' = nops + 1
       /\ dataCache' = IF value # Null THEN setCache(dataCache, key, value, now)
                       ELSE deleteCache(dataCache, key)
       /\ authRows' = IF ~stmtOk THEN authRows
                      ELSE IF value # Null
                      THEN insertAuth(authRows, s, name, stringifyPlain(value))
                      ELSE deleteAuth(authRows, s, name)
       /\ hist' = Push(hist, Call("set", s, type, {id}, value, fail, old, stmtOk,
                                  NoResult))
       /\ UNCHANGED << devices, nextId, keyRows, keyCache, deviceId, regId, now >>

(* keys.set for a data set of several entries of one category.  A         *)
(* connection is taken from the pool and a transaction is begun on it; the *)
(* statements are executed through the prepared statements of the pool,    *)
(* not on that connection, so each commits on its own.  When one of them   *)
(* fails the transaction, which holds nothing, is rolled back and the      *)
(* error is thrown.  failing: the identifiers whose statement fails.       *)
BatchIds == {"3", "4"}
PoolSetBatch(s, type, data, failing) ==
    LET name(id) == type \o "-" \o id
        key(id) == createCacheKey(s, name(id))
        idOf(c) == CHOOSE id \in BatchIds : key(id) = c
        old == [id \in BatchIds |-> selectAuth(authRows, s, name(id))]
        applied == BatchIds \ failing
        written == {id \in applied : data[id] # Null}
        kept == {r \in authRows :
                    ~(r.session = s /\ r.id \in {name(id) : id \in applied})}
        cached == {key(id) : id \in {i \in BatchIds : data[i] # Null}}
        removed == {key(id) : id \in {i \in BatchIds : data[i] = Null}}
    IN /\ nops < MaxOps
       /\ nops' = nops + 1
       /\ dataCache' = [c \in (DOMAIN dataCache \cup cached) \ removed |->
                           IF c \in cached
                           THEN [data |-> data[idOf(c)], timestamp |-> now]
                           ELSE dataCache[c]]
       /\ authRows' = kept \cup {[session |-> s, id |-> name(id),
                                  value |-> stringifyPlain(data[id])] :
                                     id \in written}
       /\ hist' = Push(hist, Call("setBatch", s, type, BatchIds, data, failing,
                                  old, failing = {}, NoResult))
       /\ UNCHANGED << devices, nextId, keyRows, keyCache, deviceId, regId, now >>

----------------------------------------------------------------------------
(* The single-connection legacy store (unnamed/part_002).                  *)

(* String.prototype.replace(pattern, ''): the first occurrence is removed. *)
RECURSIVE replaceAt(_, _, _)
replaceAt(str, pat, i) ==
    IF i + Len(pat) - 1 > Len(str) THEN str
    ELSE IF SubSeq(str, i, i + Len(pat) - 1) = pat
    THEN SubSeq(str, 1, i - 1) \o SubSeq(str, i + Len(pat), Len(str))
    ELSE replaceAt(str, pat, i + 1)

replaceFirst(str, pat) == replaceAt(str, pat, 1)

(* readData: the row's value through JSON.stringify and the reviver.       *)
legacyReadData(s, id) ==
    LET v == selectAuth(authRows, s, id)
    IN IF v = Null THEN Null ELSE parseReviver(stringifyPlain(v))

(* keys.get: above the batch threshold one SELECT ... IN (...) whose rows  *)
(* make the result; at or below it one readData per id and data[id] =      *)
(* value, null included.  A query that gives up makes get throw.           *)
LegacyGet(s, type, ids, fail) ==
    LET name(id) == type \o "-" \o id
        rows == {r \in authRows : r.session = s /\ r.id \in {name(id) : id \in ids}}
        keyOf(r) == replaceFirst(r.id, type \o "-")
        batch == [k \in {keyOf(r) : r \in rows} |->
                     decodeAs(type, parseReviver(stringifyPlain(
                         (CHOOSE r \in rows : keyOf(r) = k).value)))]
        single == [id \in ids |-> decodeAs(type, legacyReadData(s, name(id)))]
        ok == /\ "legacy" \notin fail
              /\ \A id \in ids : decodeAs(type, legacyReadData(s, name(id))) # Thrown
        res == IF ~ok THEN NoResult
               ELSE IF Cardinality(ids) > BatchThreshold THEN batch
               ELSE single
    IN /\ nops < MaxOps
       /\ nops' = nops + 1
       /\ hist' = Push(hist, Call("get", s, type, ids, Null, fail, Null, ok, res))
       /\ UNCHANGED << devices, nextId, keyRows, authRows, keyCache, dataCache,
                       deviceId, regId, now >>

(* keys.set for a data set of one entry: writeData or removeData.          *)
LegacySet(s, type, id, value, fail) ==
    LET name == type \o "-" \o id
        ok == "legacy" \notin fail
    IN /\ nops < MaxOps
       /\ nops' = nops + 1
       /\ authRows' = IF ~ok THEN authRows
                      ELSE IF value # Null
                      THEN insertAuth(authRows, s, name, stringifyReplacer(value))
                      ELSE deleteAuth(authRows, s, name)
       /\ hist' = Push(hist, Call("set", s, type, {id}, value, fail,
                                  legacyReadData(s, name), ok, NoResult))
       /\ UNCHANGED << devices, nextId, keyRows, keyCache, dataCache, deviceId,
                       regId, now >>

(* Identifier lists read from the legacy store: at, and above, the batch   *)
(* threshold.                                                              *)
ManyIds == {"3", "4", "5", "6", "7", "8", "9", "10", "11", "12", "13"}
LegacyGetIdSets == GetIdSets \cup {ManyIds}

----------------------------------------------------------------------------
(* query(): the retry loop of each store.                                  *)
(*                                                                         *)
(* q is one run: impl, the store; bound, its maxtRetries / maxRetries;     *)
(* fails, how many executions of the statement fail before one succeeds;   *)
(* x, the loop variable; attempts, executions made; refreshes, calls of    *)
(* connection(config, true); status.                                       *)

QIdle == [impl |-> "none"]

Impls == {"part_002", "index.ts", "optimized.ts", "part_003"}
RetryBounds == {3, 5}                   \* config.maxtRetries

(* part_003 takes its bound from MYSQL_OPTIMIZATIONS.retryConfig, the      *)
(* others from the configuration.                                          *)
maxRetries(impl, configured) ==
    IF impl = "part_003" THEN OptimizedMaxRetries ELSE configured

(* The n-th execution of the statement succeeds once `fails` executions    *)
(* have failed.                                                            *)
executes(run) == run.attempts >= run.fails

QueryStart(impl, configured, fails) ==
    /\ q = QIdle
    /\ q' = [impl |-> impl, bound |-> maxRetries(impl, configured),
             fails |-> fails, x |-> 0, attempts |-> 0, refreshes |-> 0,
             status |-> "running"]
    /\ UNCHANGED << storeVars, mig >>

(* One iteration of the for loop: try the statement; the catch block.      *)
(* part_002 on its last iteration goes on to reconnect; the others throw   *)
(* once the loop is over.                                                  *)
QueryAttempt ==
    /\ q # QIdle
    /\ q.status = "running"
    /\ q.x < q.bound
    /\ LET done == [q EXCEPT !.attempts = @ + 1]
       IN q' = IF executes(q) THEN [done EXCEPT !.status = "ok"]
               ELSE IF q.impl = "part_002" /\ q.x = q.bound - 1
               THEN [done EXCEPT !.status = "reconnecting"]
               ELSE IF q.impl = "part_003" /\ q.x = q.bound - 1
               THEN [done EXCEPT !.status = "failed"]
               ELSE IF q.impl \in {"index.ts", "optimized.ts"} /\ q.x + 1 = q.bound
               THEN [done EXCEPT !.x = @ + 1, !.status = "failed"]
               ELSE [done EXCEPT !.x = @ + 1]
    /\ UNCHANGED << storeVars, mig >>

(* part_002, x === maxtRetries - 1: connection(config, true), which may    *)
(* itself fail, then the statement once more; the first error is thrown if *)
(* either fails.                                                           *)
QueryReconnect(connected) ==
    /\ q # QIdle
    /\ q.status = "reconnecting"
    /\ q' = IF ~connected
            THEN [q EXCEPT !.refreshes = @ + 1, !.status = "failed"]
            ELSE [q EXCEPT !.refreshes = @ + 1, !.attempts = @ + 1,
                           !.status = IF executes(q) THEN "ok" ELSE "failed"]
    /\ UNCHANGED << storeVars, mig >>

----------------------------------------------------------------------------
(* The connection handles.  q holds the module-level slots (the single     *)
(* `conn` of part_002, optimized.ts and part_003, or the pools of index.ts *)
(* by poolKey), the handles opened so far, the tables that exist, the      *)
(* state objects returned to callers, and the last call.                   *)

ConnImpls == {"part_002", "optimized.ts", "part_003", "index.ts"}
SingleConn == {"part_002", "optimized.ts", "part_003"}
Configs == {[database |-> "db1", session |-> "s1", tableName |-> "auth"],
            [database |-> "db2", session |-> "s2", tableName |-> "wa"]}

(* index.ts getConnection: `${host}:${port}:${database}:${session}`.       *)
poolKey(config) == "localhost:3306:" \o config.database \o ":" \o config.session

(* The slot a configuration is served from.                                *)
slotOf(impl, config) == IF impl = "index.ts" THEN poolKey(config) ELSE "conn"

ConnStart(impl) ==
    [impl |-> impl, slots |-> [s \in {} |-> 0], handles |-> << >>,
     tables |-> {}, isOptimizedSchema |-> FALSE, unverified |-> {},
     runs |-> [c \in Configs |-> 0], states |-> {}, calls |-> 0,
     cleanupIntervals |-> [k \in {} |-> 0], timers |-> {},
     objects |-> [c \in Configs |-> 0],
     last |-> [op |-> "none"]]

(* The table of a configuration in the database a handle is connected to.  *)
tableOn(c, h, config) ==
    [database |-> c.handles[h].database, name |-> config.tableName]

(* connection(config, force) and, for index.ts, getConnection followed by  *)
(* initializeDatabase: the handle in the slot is returned unless there is  *)
(* none, it is closing, or force is set; the schema is created when the    *)
(* slot was empty (part_003: or isOptimizedSchema is false; index.ts: on   *)
(* every call).  A failing creation throws in part_002 and index.ts, after *)
(* the handle has been put into the slot, and is swallowed by the others.  *)
connection(c, config, force, schemaFails) ==
    LET slot == slotOf(c.impl, config)
        conn == IF slot \in DOMAIN c.slots THEN c.slots[slot] ELSE 0
        newConnection == conn = 0
        ended == conn # 0 /\ c.handles[conn].closing
        opens == newConnection \/ (c.impl \in SingleConn /\ (ended \/ force))
        h == IF opens THEN Len(c.handles) + 1 ELSE conn
        handles == IF opens
                   THEN Append(c.handles, [database |-> config.database,
                                           key |-> poolKey(config),
                                           closing |-> FALSE])
                   ELSE c.handles
        creates == CASE c.impl = "index.ts" -> TRUE
                     [] c.impl = "part_003" ->
                            opens /\ (newConnection \/ ~c.isOptimizedSchema)
                     [] OTHER -> opens /\ newConnection
        opened == [c EXCEPT !.handles = handles,
                            !.slots = [s \in DOMAIN c.slots \cup {slot} |->
                                          IF s = slot THEN h ELSE c.slots[s]]]
        created ==
            IF ~creates THEN opened
            ELSE [opened EXCEPT
                    !.runs[config] = @ + 1,
                    !.isOptimizedSchema = @ \/ c.impl = "part_003",
                    !.tables = IF schemaFails THEN @
                               ELSE @ \cup {tableOn(opened, h, config)},
                    !.unverified = IF schemaFails THEN @ \cup {h} ELSE @ \ {h}]
    IN [q |-> created, handle |-> h,
        threw |-> creates /\ schemaFails /\ c.impl \in {"part_002", "index.ts"}]

(* One statement of a state object through its query function: it runs on  *)
(* the handle the state object captured when it was created.  part_002     *)
(* calls connection(config, true) after the last failure and then executes *)
(* on the captured handle once more; the others give up.                   *)
execute(c, st) ==
    LET h == st.sqlConn
        alive == ~c.handles[h].closing
        exists == tableOn(c, h, st.config) \in c.tables
        call == [config |-> st.config, handle |-> h, wasClosed |-> ~alive,
                 executed |-> alive, exists |-> exists,
                 unverified |-> h \in c.unverified, ok |-> alive /\ exists,
                 refreshed |-> ~(alive /\ exists) /\ c.impl = "part_002",
                 retriedOn |-> h]
    IN IF ~call.ok /\ c.impl = "part_002"
       THEN [q |-> connection(c, st.config, TRUE, FALSE).q, call |-> call]
       ELSE [q |-> c, call |-> call]

(* config.cleanupIntervalHours as configured; 0 stands for a value that is *)
(* falsy (0 or not given), which `|| 24` replaces by the default.          *)
DefaultCleanupHours == 24
CleanupHours == {0, DefaultCleanupHours, -1}
cleanupIntervalHours(configured) ==
    IF configured = 0 THEN DefaultCleanupHours ELSE configured

(* clearInterval(cleanupIntervals[intervalKey]) when the entry exists: the *)
(* timer of that handle is no longer scheduled.  c.timers is the set of    *)
(* timers the event loop holds, c.cleanupIntervals the module-level map.   *)
clearInterval(c, intervalKey) ==
    [c EXCEPT !.timers =
        IF intervalKey \in DOMAIN c.cleanupIntervals
        THEN {t \in @ : t.id # c.cleanupIntervals[intervalKey]}
        ELSE @]

(* index.ts 276-295: the existing interval of the key is cleared, then a   *)
(* new one is set and stored under the key when the hours are positive.    *)
scheduleCleanupKeepsOld(c, intervalKey, configured) ==
    LET id == c.calls + 1
    IN IF cleanupIntervalHours(configured) > 0
       THEN [c EXCEPT
               !.timers = @ \cup {[id |-> id, key |-> intervalKey]},
               !.cleanupIntervals =
                   [k \in DOMAIN c.cleanupIntervals \cup {intervalKey} |->
                       IF k = intervalKey THEN id ELSE c.cleanupIntervals[k]]]
       ELSE c

scheduleCleanup(c, intervalKey, configured) ==
    LET cleared == clearInterval(c, intervalKey)
        id == c.calls + 1
    IN IF cleanupIntervalHours(configured) > 0
       THEN [cleared EXCEPT
               !.timers = @ \cup {[id |-> id, key |-> intervalKey]},
               !.cleanupIntervals =
                   [k \in DOMAIN c.cleanupIntervals \cup {intervalKey} |->
                       IF k = intervalKey THEN id ELSE c.cleanupIntervals[k]]]
       ELSE cleared

(* useMySQLAuthState(config): the handle, then the credential is read.     *)
(* index.ts schedules the sender-key-memory cleanup before that read.      *)
(* part_002 and part_003 reject when the read fails; optimized.ts and      *)
(* index.ts swallow the error and start from a new credential.             *)
UseAuthState(config, schemaFails) ==
    LET slot == slotOf(q.impl, config)
        before == IF slot \in DOMAIN q.slots THEN q.slots[slot] ELSE 0
        r == connection(q, config, FALSE, schemaFails)
        st == [config |-> config, sqlConn |-> r.handle]
        e == execute(r.q, st)
        rejects == r.threw \/ (~e.call.ok /\ q.impl \in {"part_002", "part_003"})
        after == IF r.threw THEN r.q ELSE e.q
        timed(configured) ==
            IF q.impl = "index.ts" /\ ~r.threw
            THEN scheduleCleanup(after, slot, configured)
            ELSE after
    IN /\ q.impl \in ConnImpls
       /\ q.calls < MaxConnCalls
       /\ Len(q.handles) + 2 <= MaxHandles
       /\ \E configured \in CleanupHours :
            q' = [timed(configured) EXCEPT
                  !.calls = @ + 1,
                  !.states = IF rejects THEN @ ELSE @ \cup {st},
                  !.objects[config] = IF rejects THEN @ ELSE @ + 1,
                  !.last = [op |-> "create", config |-> config,
                            handle |-> r.handle, threw |-> rejects,
                            before |-> before,
                            executed |-> ~r.threw /\ e.call.executed,
                            exists |-> ~r.threw /\ e.call.exists,
                            unverified |-> r.handle \in r.q.unverified,
                            wasClosed |-> FALSE, ok |-> ~rejects]]
       /\ UNCHANGED << storeVars, mig >>

(* The server or the network closes a connection.                          *)
HandleClosed(h) ==
    /\ q.impl \in SingleConn
    /\ h \in 1..Len(q.handles)
    /\ ~q.handles[h].closing
    /\ q.calls < MaxConnCalls
    /\ q' = [q EXCEPT !.handles[h].closing = TRUE,
                      !.calls = @ + 1,
                      !.last = [op |-> "closed", handle |-> h]]
    /\ UNCHANGED << storeVars, mig >>

(* index.ts closeConnections of a state object: when the key has a pool,   *)
(* pool.end() and the pool is taken out of pools; then the interval of the *)
(* key is cleared and taken out of cleanupIntervals.                       *)
closeConnections(st) ==
    LET slot == poolKey(st.config)
        pool == IF slot \in DOMAIN q.slots THEN q.slots[slot] ELSE 0
        cleared == clearInterval(q, slot)
    IN /\ q.impl = "index.ts"
       /\ st \in q.states
       /\ q.calls < MaxConnCalls
       /\ q' = [cleared EXCEPT
                  !.handles = IF pool = 0 THEN @
                              ELSE [@ EXCEPT ![pool].closing = TRUE],
                  !.calls = @ + 1,
                  !.slots = [s \in DOMAIN q.slots \ {slot} |-> q.slots[s]],
                  !.cleanupIntervals =
                      [k \in DOMAIN q.cleanupIntervals \ {slot} |->
                          q.cleanupIntervals[k]],
                  !.last = [op |-> "closed", handle |-> pool, key |-> slot,
                            hadTimer |-> cleared.timers # q.timers]]
       /\ UNCHANGED << storeVars, mig >>

(* A get or set of a state object.                                         *)
StoreOperation(st) ==
    LET e == execute(q, st)
    IN /\ q.impl \in ConnImpls
       /\ st \in q.states
       /\ q.calls < MaxConnCalls
       /\ Len(q.handles) + 1 <= MaxHandles
       /\ q' = [e.q EXCEPT
                  !.calls = @ + 1,
                  !.last = [op |-> "store", config |-> st.config,
                            handle |-> st.sqlConn, threw |-> ~e.call.ok,
                            before |-> st.sqlConn,
                            executed |-> e.call.executed,
                            exists |-> e.call.exists,
                            unverified |-> e.call.unverified,
                            wasClosed |-> e.call.wasClosed, ok |-> e.call.ok,
                            refreshed |-> e.call.refreshed,
                            retriedOn |-> e.call.retriedOn]]
       /\ UNCHANGED << storeVars, mig >>

----------------------------------------------------------------------------
(* Concurrent keys.set calls of one session for one identifier, on the     *)
(* legacy stores (src/Mysql/index.ts, unnamed/part_002).  q holds the      *)
(* statements queued on the connection of the prepared statement (of the   *)
(* single connection), the calls issued and the calls that returned.       *)

RaceImpls == {"index.ts", "part_002"}
Writers == {"A", "B"}
written(c) == IF c = "A" THEN V1 ELSE V2
RaceSession == "s1"
RaceType == "pre-key"
RaceName == RaceType \o "-" \o "3"

(* Two callers are about to call keys.set on the store impl.               *)
RaceStart(impl) ==
    /\ q = QIdle
    /\ q' = [impl |-> impl, queue |-> << >>, issued |-> {}, returned |-> {},
             retried |-> 0, last |-> Null]
    /\ UNCHANGED << storeVars, mig >>

(* keys.set of caller c runs up to its await: the statement is queued;     *)
(* index.ts has then already put the value into its cache.                 *)
SetIssued(c) ==
    /\ q.impl \in RaceImpls
    /\ c \notin q.issued
    /\ q' = [q EXCEPT !.queue = Append(@, [c |-> c, value |-> written(c)]),
                      !.issued = @ \cup {c}]
    /\ dataCache' = IF q.impl = "index.ts"
                    THEN setCache(dataCache, createCacheKey(RaceSession, RaceName),
                                  written(c), now)
                    ELSE dataCache
    /\ UNCHANGED << devices, nextId, keyRows, authRows, keyCache, deviceId, regId,
                    now, hist, nops, mig >>

(* The server executes the oldest queued statement; its promise resolves   *)
(* and the call that awaited it returns.                                   *)
StatementApplied ==
    /\ q.impl \in RaceImpls
    /\ q.queue # << >>
    /\ LET h == Head(q.queue)
       IN /\ authRows' = insertAuth(authRows, RaceSession, RaceName,
                                    IF q.impl = "index.ts"
                                    THEN stringifyPlain(h.value)
                                    ELSE stringifyReplacer(h.value))
          /\ q' = [q EXCEPT !.queue = Tail(@), !.returned = @ \cup {h.c},
                            !.last = h.value]
    /\ UNCHANGED << devices, nextId, keyRows, keyCache, dataCache, deviceId, regId,
                    now, hist, nops, mig >>

(* part_002 query: the oldest queued statement fails and, after the retry  *)
(* delay, is executed again behind the statements queued meanwhile.        *)
StatementRetried ==
    /\ q.impl = "part_002"
    /\ q.queue # << >>
    /\ q.retried < MaxRaceRetries
    /\ q' = [q EXCEPT !.queue = Append(Tail(@), Head(@)), !.retried = @ + 1]
    /\ UNCHANGED << storeVars, mig >>

(* keys.get of the identifier once every set call has returned.            *)
RaceGet ==
    /\ q.impl \in RaceImpls
    /\ q.returned = Writers
    /\ IF q.impl = "index.ts"
       THEN PoolGet(RaceSession, RaceType, SetIds, {})
       ELSE LegacyGet(RaceSession, RaceType, SetIds, {})
    /\ UNCHANGED << q, mig >>

----------------------------------------------------------------------------
(* A keys.get and a keys.set of one session for one identifier that run    *)
(* concurrently (src/Mysql/index.ts, src/Mysql/optimized.ts).  Each call   *)
(* runs from one await to the next in one step.  The statements go to the *)
(* connection in the order they are issued; the server executes them in    *)
(* that order and their promises resolve in that order.  q holds the       *)
(* position of each call, what the SELECT of the get returned, what the    *)
(* set writes, the statements queued and the replies not yet delivered.    *)

MixImpls == {"index.ts", "optimized.ts"}
MixId == "3"

MixStart(impl) ==
    [impl |-> impl, get |-> [pc |-> "idle", read |-> Null],
     set |-> [pc |-> "idle", value |-> Null],
     queue |-> << >>, replies |-> << >>]

(* The cache entry of the identifier read the way the store reads it, and  *)
(* the row the store holds for it.                                         *)
mixCached(impl) ==
    IF impl = "index.ts"
    THEN IF isValidCache(createCacheKey(RaceSession, RaceName))
         THEN dataCache[createCacheKey(RaceSession, RaceName)].data ELSE Null
    ELSE getFromCache(keyCache, getCacheKey(RaceType, MixId, RaceSession), now)
mixStored(impl) ==
    IF impl = "index.ts" THEN selectAuth(authRows, RaceSession, RaceName)
    ELSE LET rows == {r \in keyRows : r.table = tableMap(RaceType)
                                      /\ r.device_id = deviceId[RaceSession]
                                      /\ r.key_id = MixId}
         IN IF rows = {} THEN Null ELSE (CHOOSE r \in rows : TRUE).value

(* readData / readKeyData up to the await of the SELECT: a valid cache     *)
(* entry is returned at once.                                              *)
GetStart ==
    /\ q.impl \in MixImpls
    /\ q.get.pc = "idle"
    /\ q' = IF mixCached(q.impl) # Null THEN [q EXCEPT !.get.pc = "done"]
             ELSE [q EXCEPT !.get.pc = "selecting",
                            !.queue = Append(@, "get")]
    /\ UNCHANGED << storeVars, mig >>

(* The server executes the SELECT.                                         *)
GetSelected ==
    /\ q.impl \in MixImpls
    /\ q.get.pc = "selecting"
    /\ Head(q.queue) = "get"
    /\ q' = [q EXCEPT !.get.pc = "fetched", !.get.read = mixStored(q.impl),
                      !.queue = Tail(@), !.replies = Append(@, "get")]
    /\ UNCHANGED << storeVars, mig >>

(* The SELECT resolves: what it returned is put into the cache (index.ts:  *)
(* `if (data)`; optimized.ts: for every row) and the get returns.          *)
GetReturn ==
    /\ q.impl \in MixImpls
    /\ q.get.pc = "fetched"
    /\ Head(q.replies) = "get"
    /\ q' = [q EXCEPT !.get.pc = "done", !.replies = Tail(@)]
    /\ dataCache' = IF q.impl = "index.ts" /\ q.get.read # Null
                    THEN setCache(dataCache, createCacheKey(RaceSession, RaceName),
                                  parsePlain(q.get.read), now)
                    ELSE dataCache
    /\ keyCache' = IF q.impl = "optimized.ts" /\ q.get.read # Null
                   THEN setCache(keyCache,
                                 getCacheKey(RaceType, MixId, RaceSession),
                                 jsonParse(q.get.read), now)
                   ELSE keyCache
    /\ UNCHANGED << devices, nextId, keyRows, authRows, deviceId, regId, now,
                    hist, nops, mig >>

(* keys.set / writeKeyData up to the await of its statement.  index.ts     *)
(* updates its cache when it issues the statement.                         *)
SetStart(value) ==
    /\ q.impl \in MixImpls
    /\ q.set.pc = "idle"
    /\ q' = [q EXCEPT !.set.pc = "issued", !.set.value = value,
                      !.queue = Append(@, "set")]
    /\ dataCache' = IF q.impl # "index.ts" THEN dataCache
                    ELSE IF value # Null
                    THEN setCache(dataCache, createCacheKey(RaceSession, RaceName),
                                  value, now)
                    ELSE deleteCache(dataCache,
                                     createCacheKey(RaceSession, RaceName))
    /\ UNCHANGED << devices, nextId, keyRows, authRows, keyCache, deviceId, regId,
                    now, hist, nops, mig >>

(* The server executes the INSERT ... ON DUPLICATE KEY UPDATE or DELETE.   *)
SetApplied ==
    /\ q.impl \in MixImpls
    /\ q.set.pc = "issued"
    /\ Head(q.queue) = "set"
    /\ q' = [q EXCEPT !.set.pc = "applied", !.queue = Tail(@),
                      !.replies = Append(@, "set")]
    /\ authRows' = IF q.impl # "index.ts" THEN authRows
                   ELSE IF q.set.value # Null
                   THEN insertAuth(authRows, RaceSession, RaceName,
                                   stringifyPlain(q.set.value))
                   ELSE deleteAuth(authRows, RaceSession, RaceName)
    /\ keyRows' = IF q.impl # "optimized.ts" THEN keyRows
                  ELSE IF q.set.value # Null
                  THEN insertKey(keyRows, tableMap(RaceType), MixId,
                                 stringifyReplacer(q.set.value),
                                 deviceId[RaceSession], RaceSession)
                  ELSE deleteKey(keyRows, tableMap(RaceType), MixId,
                                 deviceId[RaceSession])
    /\ UNCHANGED << devices, nextId, keyCache, dataCache, deviceId, regId, now,
                    hist, nops, mig >>

(* The statement resolves and the set returns; optimized.ts updates its    *)
(* cache now.                                                              *)
SetReturn ==
    /\ q.impl \in MixImpls
    /\ q.set.pc = "applied"
    /\ Head(q.replies) = "set"
    /\ q' = [q EXCEPT !.set.pc = "done", !.replies = Tail(@)]
    /\ keyCache' = IF q.impl # "optimized.ts" THEN keyCache
                   ELSE IF q.set.value # Null
                   THEN setCache(keyCache,
                                 getCacheKey(RaceType, MixId, RaceSession),
                                 q.set.value, now)
                   ELSE deleteCache(keyCache,
                                    getCacheKey(RaceType, MixId, RaceSession))
    /\ UNCHANGED << devices, nextId, keyRows, authRows, dataCache, deviceId, regId,
                    now, hist, nops, mig >>

----------------------------------------------------------------------------
(* The migrations from the legacy table to the normalized tables.          *)
(*                                                                         *)
(* mig is one run: engine, the migration; variant, how it was run;         *)
(* session; legacy, the rows of the legacy table when it started.          *)

MigIdle == [engine |-> "none"]

KeyTypes == {"sender-key-memory", "sender-key", "session", "pre-key",
             "app-state-sync-version", "app-state-sync-key"}
BareIds == {"abc", "7"}

prefixOf(type) == type \o "-"

LegacyKeyIds == {prefixOf(t) \o b : t \in KeyTypes, b \in BareIds}

(* The WHERE condition of one key type: the prefix, with the explicit      *)
(* exclusion of the longer prefix that begins with it.                     *)
legacyCondition(type, id) ==
    /\ startsWith(id, prefixOf(type))
    /\ type = "sender-key" => ~startsWith(id, "sender-key-memory-")
    /\ type = "app-state-sync-key" => ~startsWith(id, "app-state-sync-version-")

(* INSERT ... ON DUPLICATE KEY UPDATE value = VALUES(value) of many rows.  *)
upsertKeys(rows, new) ==
    LET hit(r, n) == n.table = r.table /\ n.key_id = r.key_id
                     /\ n.device_id = r.device_id
    IN {IF \E n \in new : hit(r, n)
        THEN [r EXCEPT !.value = (CHOOSE n \in new : hit(r, n)).value]
        ELSE r : r \in rows}
       \cup {n \in new : ~\E r \in rows : hit(r, n)}

(* INSERT IGNORE of many rows.                                             *)
insertIgnore(rows, new) ==
    rows \cup {n \in new : ~\E r \in rows : n.table = r.table
                                            /\ n.key_id = r.key_id
                                            /\ n.device_id = r.device_id
                                            /\ n.session = r.session}

keyRow(table, key_id, device_id, session, value) ==
    [table |-> table, key_id |-> key_id, device_id |-> device_id,
     session |-> session, value |-> value]

nextIdAfter(s) ==
    IF \E r \in devices : r.whatsapp_id = ToString(regId[s])
    THEN nextId ELSE nextId + 1

Started(engine, variant, s) ==
    [engine |-> engine, variant |-> variant, session |-> s, legacy |-> authRows]

(* optimized.ts migrateFromLegacy.                                         *)
migrateFromLegacy(s) ==
    LET existingDevice == \E r \in devices : r.session = s
        credsData == readLegacyData(s, "creds", FALSE)
        devs == IF credsData # Null THEN savedDevices(s) ELSE devices
        currentDeviceId == IF credsData # Null THEN deviceOf(devs, s)
                           ELSE getDeviceId(s, FALSE)
        legacyKeys == {p \in authRows \X KeyTypes :
                          p[1].session = s /\ legacyCondition(p[2], p[1].id)}
        values == {keyRow(tableMap(p[2]), replaceFirst(p[1].id, prefixOf(p[2])),
                          currentDeviceId, s, stringifyPlain(p[1].value)) :
                      p \in legacyKeys}
    IN /\ mig = MigIdle
       /\ mig' = Started("migrateFromLegacy", "", s)
       /\ IF existingDevice
          THEN UNCHANGED << devices, nextId, deviceId, keyRows >>
          ELSE /\ devices' = devs
               /\ nextId' = IF credsData # Null THEN nextIdAfter(s) ELSE nextId
               /\ deviceId' = [deviceId EXCEPT ![s] = currentDeviceId]
               /\ keyRows' = IF \E r \in devs : r.id = currentDeviceId
                             THEN upsertKeys(keyRows, values)
                             ELSE keyRows
       /\ UNCHANGED << authRows, keyCache, dataCache, regId, now, hist, nops, q >>

(* SUBSTRING(id, n) of each INSERT ... SELECT of the procedure.            *)
substringFrom(type) ==
    CASE type = "sender-key-memory" -> 18
      [] type = "sender-key" -> 12
      [] type = "session" -> 9
      [] type = "pre-key" -> 9
      [] type = "app-state-sync-version" -> 23
      [] type = "app-state-sync-key" -> 19

SUBSTRING(str, n) == SubSeq(str, n, Len(str))

DryRunDeviceId == 999

(* The stored procedure MigrateLegacyAuthData(target_session, dry_run).    *)
(* IF NOT dry_run THEN ...: the statements that write.                     *)
writesAnyway(dry_run) == TRUE

writes(dry_run) == ~dry_run

(* The local variables of the procedure before the first FETCH.           *)
Declared ==
    [devices |-> devices, nextId |-> nextId, keyRows |-> keyRows,
     creds_data |-> Null, device_id |-> NoDevice, done |-> FALSE, counts |-> {}]

(* One pass of session_loop for session_name.  A SELECT ... INTO that      *)
(* finds no row leaves its variable as it was and raises NOT FOUND, which  *)
(* the CONTINUE HANDLER turns into done = TRUE.                            *)
sessionStep(st, session_name, dry_run) ==
    LET found == selectAuth(authRows, session_name, "creds")
        creds_data == IF found # Null THEN found ELSE st.creds_data
        wid == ToString(creds_data.registrationId)
        inserts == /\ creds_data # Null
                   /\ writes(dry_run)
                   /\ ~\E r \in st.devices : r.whatsapp_id = wid
        devs == IF inserts
                THEN st.devices \cup
                     {[id |-> st.nextId, whatsapp_id |-> wid,
                       session |-> session_name,
                       registration_id |-> creds_data.registrationId]}
                ELSE st.devices
        noDevice == creds_data # Null /\ writes(dry_run)
                    /\ deviceOf(devs, session_name) = NoDevice
        device_id == IF creds_data = Null \/ noDevice THEN st.device_id
                     ELSE IF ~writes(dry_run) THEN DryRunDeviceId
                     ELSE deviceOf(devs, session_name)
        selected == {p \in authRows \X KeyTypes :
                        p[1].session = session_name
                        /\ legacyCondition(p[2], p[1].id)}
        values == {keyRow(tableMap(p[2]), SUBSTRING(p[1].id, substringFrom(p[2])),
                          device_id, session_name, p[1].value) : p \in selected}
        counted == {[session |-> session_name, type |-> t,
                     count |-> Cardinality({p \in selected : p[2] = t})] :
                       t \in KeyTypes}
    IN [devices |-> devs,
        nextId |-> IF inserts THEN st.nextId + 1 ELSE st.nextId,
        keyRows |-> IF writes(dry_run) /\ device_id > 0
                    THEN upsertKeys(st.keyRows, values)
                    ELSE st.keyRows,
        creds_data |-> creds_data,
        device_id |-> device_id,
        done |-> st.done \/ found = Null \/ noDevice,
        counts |-> IF dry_run THEN st.counts \cup counted ELSE st.counts]

(* session_loop: FETCH, LEAVE when done, else one pass.                    *)
RECURSIVE session_loop(_, _, _)
session_loop(st, cursor, dry_run) ==
    IF cursor = << >> \/ st.done THEN st
    ELSE session_loop(sessionStep(st, Head(cursor), dry_run), Tail(cursor),
                      dry_run)

(* The orders in which session_cursor may deliver SELECT DISTINCT session. *)
CursorOrders(target_session) ==
    LET S == {r.session : r \in {x \in authRows :
                 x.session = target_session \/ target_session = "ALL"}}
    IN {o \in [1 .. Cardinality(S) -> S] :
           \A i, j \in 1 .. Cardinality(S) : i # j => o[i] # o[j]}

(* The procedure MigrateLegacyAuthData(legacy table, target_session,       *)
(* dry_run); a dry run reports one count per category and session.         *)
MigrateLegacyAuthData(target_session, dry_run) ==
    \E cursor \in CursorOrders(target_session) :
        LET end == session_loop(Declared, cursor, dry_run)
        IN /\ mig = MigIdle
           /\ mig' = IF dry_run
                     THEN [engine |-> "MigrateLegacyAuthData",
                           variant |-> "dry_run", session |-> target_session,
                           legacy |-> authRows, counts |-> end.counts]
                     ELSE Started("MigrateLegacyAuthData", "run", target_session)
           /\ devices' = end.devices
           /\ nextId' = end.nextId
           /\ keyRows' = end.keyRows
           /\ UNCHANGED << authRows, keyCache, dataCache, deviceId, regId, now,
                           hist, nops, q >>

NoConfig == [suffix |-> "", prefix |-> ""]

(* part_003 getTableConfigFromKey.                                         *)
getTableConfigFromKey(key) ==
    IF startsWith(key, "pre-key-")
    THEN [suffix |-> "_prekeys", prefix |-> "pre-key-"]
    ELSE IF startsWith(key, "session-")
    THEN [suffix |-> "_sessions", prefix |-> "session-"]
    ELSE IF startsWith(key, "sender-key-memory-")
    THEN [suffix |-> "_memory", prefix |-> "sender-key-memory-"]
    ELSE IF startsWith(key, "sender-key-")
    THEN [suffix |-> "_senderkeys", prefix |-> "sender-key-"]
    ELSE IF startsWith(key, "app-state-sync-version-")
    THEN [suffix |-> "_appversions", prefix |-> "app-state-sync-version-"]
    ELSE IF startsWith(key, "app-state-sync-key-")
    THEN [suffix |-> "_appkeys", prefix |-> "app-state-sync-key-"]
    ELSE NoConfig

(* typeToTable of MYSQL_OPTIMIZATIONS: the suffix of each type's table.    *)
typeToTable(type) ==
    CASE type = "pre-key" -> "_prekeys"
      [] type = "session" -> "_sessions"
      [] type = "sender-key" -> "_senderkeys"
      [] type = "sender-key-memory" -> "_memory"
      [] type = "app-state-sync-key" -> "_appkeys"
      [] type = "app-state-sync-version" -> "_appversions"

(* part_003 getTableConfig: 'sender-key-memory' anywhere in the type, else *)
(* the type up to its first '-'.                                           *)
RECURSIVE dashAt(_, _)
dashAt(str, i) ==
    IF i > Len(str) THEN 0
    ELSE IF SubSeq(str, i, i) = "-" THEN i
    ELSE dashAt(str, i + 1)

(* str.split('-')[0] and str.split('-').slice(1).join('-').                *)
splitHead(str) ==
    IF dashAt(str, 1) = 0 THEN str ELSE SubSeq(str, 1, dashAt(str, 1) - 1)
splitRest(str) ==
    IF dashAt(str, 1) = 0 THEN "" ELSE SubSeq(str, dashAt(str, 1) + 1, Len(str))

getTableConfig(type) ==
    IF includes(type, "sender-key-memory") THEN typeToTable("sender-key-memory")
    ELSE CASE splitHead(type) = "pre" -> typeToTable("pre-key")
           [] splitHead(type) = "session" -> typeToTable("session")
           [] splitHead(type) = "sender" -> typeToTable("sender-key")
           [] splitHead(type) = "app" ->
                 IF includes(type, "version")
                 THEN typeToTable("app-state-sync-version")
                 ELSE typeToTable("app-state-sync-key")
           [] OTHER -> NoTable

BinarySuffixes == {"_sessions", "_senderkeys"}

(* Buffer.from(value): a Buffer, or an object {type: 'Buffer', data:       *)
(* <array>}; any other object is a TypeError, null here.                   *)
bufferFrom(v) ==
    IF v.k = "Buffer" THEN v
    ELSE IF v.k = "object" /\ v.data.k = "array" THEN Buf(v.data.items)
    ELSE Null

(* part_003 migrateFromOldSchema over every session of the old table:      *)
(* migrateSessionData, migrateDataByType (an error skips the row), then    *)
(* the old table is renamed away.  createOptimizedSchema calls it before   *)
(* it creates the optimized tables: unless they exist from an earlier      *)
(* start (schemaReady) every INSERT fails and is skipped likewise.         *)
migrateFromOldSchema(schemaReady) ==
    LET keys == {r \in authRows : r.id # "creds"
                                  /\ getTableConfigFromKey(r.id) # NoConfig}
        cfg(r) == getTableConfigFromKey(r.id)
        data(r) == IF cfg(r).suffix \in BinarySuffixes THEN bufferFrom(r.value)
                   ELSE stringifyReplacer(r.value)
        values == {keyRow(cfg(r).suffix, replaceFirst(r.id, cfg(r).prefix),
                          NoDevice, r.session, data(r)) :
                      r \in {x \in keys : data(x) # Null}}
        creds == {keyRow("_devices", "default", NoDevice, r.session,
                         stringifyReplacer(r.value)) :
                     r \in {x \in authRows : x.id = "creds"}}
    IN /\ mig = MigIdle
       /\ authRows # {}
       /\ schemaReady \/ \A n \in keyRows : ~startsWith(n.table, "_")
       /\ mig' = Started("migrateFromOldSchema",
                         IF schemaReady THEN "" ELSE "no_schema", "")
       /\ keyRows' = IF schemaReady THEN insertIgnore(keyRows, creds \cup values)
                     ELSE keyRows
       /\ authRows' = {}
       /\ UNCHANGED << devices, nextId, keyCache, dataCache, deviceId, regId, now,
                       hist, nops, q >>

(* What `useOptimizedMySQLAuthState` of '../Mysql/optimized' is: that      *)
(* module exports no such name, so the call throws ("unresolved"); were    *)
(* the import repaired it would be one of the two normalized stores.       *)
Targets == {"unresolved", "optimized.ts", "part_003"}

(* Utils/migration.ts migrateToOptimizedStructure: the credential through  *)
(* saveCreds, every other record through keys.set under the category and   *)
(* id its identifier splits into.  The verification calls getStats(),      *)
(* which no store of the repository returns: it throws into the catch      *)
(* block, so the deletion of the old data that follows it is never         *)
(* reached.                                                                *)
migrateToOptimizedStructure(s, target) ==
    LET oldData == {r \in authRows : r.session = s}
        hasCreds == \E r \in oldData : r.id = "creds"
        records == {r \in oldData : r.id # "creds"}
        category(r) == splitHead(r.id)
        id(r) == splitRest(r.id)
        value(r) == parseReviver(stringifyPlain(r.value))
        devs == IF hasCreds THEN savedDevices(s) ELSE devices
        d == IF hasCreds THEN deviceOf(devs, s) ELSE getDeviceId(s, FALSE)
        optimized == {keyRow(tableMap(category(r)), id(r), d, s,
                             stringifyReplacer(value(r))) :
                         r \in {x \in records : tableMap(category(x)) # NoTable}}
        data(r) == IF getTableConfig(category(r)) \in BinarySuffixes
                   THEN bufferFrom(value(r))
                   ELSE stringifyReplacer(value(r))
        perSession ==
            {keyRow(getTableConfig(category(r)), id(r), NoDevice, s, data(r)) :
                r \in {x \in records : getTableConfig(category(x)) # NoTable}}
            \cup {keyRow("_devices", "default", NoDevice, s,
                         stringifyReplacer(value(r))) :
                     r \in {x \in oldData : x.id = "creds"}}
    IN /\ mig = MigIdle
       /\ mig' = Started("migrateToOptimizedStructure", target, s)
       /\ CASE target = "optimized.ts" ->
                 /\ devices' = devs
                 /\ nextId' = IF hasCreds THEN nextIdAfter(s) ELSE nextId
                 /\ keyRows' = IF \E r \in devs : r.id = d
                               THEN upsertKeys(keyRows, optimized)
                               ELSE keyRows
            [] target = "part_003" ->
                 /\ keyRows' = upsertKeys(keyRows, perSession)
                 /\ UNCHANGED << devices, nextId >>
            [] OTHER -> UNCHANGED << devices, nextId, keyRows >>
       /\ UNCHANGED << authRows, keyCache, dataCache, deviceId, regId, now, hist,
                       nops, q >>

----------------------------------------------------------------------------
(* Initial states and specifications.                                      *)

(* Nothing stored, no call made.                                           *)
InitEmpty ==
    /\ regId = [s \in Sessions |-> IF s = "s1" THEN 101 ELSE 102]
    /\ keyRows = {}
    /\ keyCache = EmptyCache
    /\ dataCache = EmptyCache
    /\ now = 0
    /\ hist = << >>
    /\ nops = 0
    /\ q = QIdle
    /\ mig = MigIdle

(* The optimized store: the state objects are constructed over a database  *)
(* in which the session "s1" may have saved its credential in an earlier   *)
(* run: its device row exists and readDeviceData has set deviceId from it. *)
InitOpt ==
    /\ InitEmpty
    /\ authRows = {}
    /\ \E booted \in {{}, {"s1"}} :
          /\ devices = {[id |-> 1, whatsapp_id |-> ToString(regId[s]),
                         session |-> s, registration_id |-> regId[s]] :
                            s \in booted}
          /\ nextId = 1 + Cardinality(booted)
          /\ deviceId = [s \in Sessions |->
                            IF s \in booted THEN 1 ELSE NoDevice]

NextOpt ==
    \/ \E s \in Sessions, type \in OptTypes, id \in SetIds,
          value \in Values \cup {Null}, fail \in FailModes :
            writeKeyData(s, type, id, value, fail) /\ UNCHANGED << q, mig >>
    \/ \E s \in Sessions, type \in OptTypes, ids \in GetIdSets, fail \in FailModes :
            readKeyData(s, type, ids, fail) /\ UNCHANGED << q, mig >>
    \/ \E s \in Sessions, fail \in FailModes :
            saveDeviceData(s, fail) /\ UNCHANGED << q, mig >>
    \/ Tick /\ UNCHANGED << q, mig >>

SpecOpt == InitOpt /\ [][NextOpt]_vars

(* The optimized store over a database in which "s1" may have its device   *)
(* row and the legacy table may hold the credential "s1" saved there.      *)
InitClear ==
    /\ InitEmpty
    /\ \E booted \in {{}, {"s1"}}, legacyCreds \in {{}, {"s1"}} :
          /\ devices = {[id |-> 1, whatsapp_id |-> ToString(regId[s]),
                         session |-> s, registration_id |-> regId[s]] :
                            s \in booted}
          /\ nextId = 1 + Cardinality(booted)
          /\ deviceId = [s \in Sessions |->
                            IF s \in booted THEN 1 ELSE NoDevice]
          /\ authRows = {[session |-> s, id |-> "creds",
                          value |-> stringifyReplacer(Creds(s))] :
                             s \in legacyCreds}

ClearFailModes == {{}, {"normalized"}}

NextClear ==
    \/ \E s \in Sessions, type \in OptTypes, id \in SetIds,
          fail \in ClearFailModes :
            writeKeyData(s, type, id, V1, fail) /\ UNCHANGED << q, mig >>
    \/ \E s \in Sessions, type \in OptTypes, fail \in ClearFailModes :
            readKeyData(s, type, SetIds, fail) /\ UNCHANGED << q, mig >>
    \/ \E s \in Sessions : saveDeviceData(s, {}) /\ UNCHANGED << q, mig >>
    \/ \E s \in Sessions, fail \in FailModes :
            clearAll(s, fail) /\ UNCHANGED << q, mig >>
    \/ \E s \in Sessions, fail \in FailModes :
            removeAll(s, fail) /\ UNCHANGED << q, mig >>
    \/ \E s \in Sessions, fail \in FailModes :
            clearSenderKeyMemory(s, fail) /\ UNCHANGED << q, mig >>

SpecClear == InitClear /\ [][NextClear]_vars

(* The legacy stores start over an empty legacy table.                     *)
InitLegacy ==
    /\ InitEmpty
    /\ authRows = {}
    /\ devices = {}
    /\ nextId = 1
    /\ deviceId = [s \in Sessions |-> NoDevice]

NextPool ==
    \/ \E s \in Sessions, type \in OptTypes, id \in SetIds,
          value \in Values \cup {Null}, fail \in LegacyFailModes :
            PoolSet(s, type, id, value, fail) /\ UNCHANGED << q, mig >>
    \/ \E s \in Sessions, type \in OptTypes, ids \in GetIdSets,
          fail \in LegacyFailModes :
            PoolGet(s, type, ids, fail) /\ UNCHANGED << q, mig >>
    \/ Tick /\ UNCHANGED << q, mig >>

SpecPool == InitLegacy /\ [][NextPool]_vars

NextBatch ==
    \/ \E data \in [BatchIds -> Values \cup {Null}], failing \in SUBSET BatchIds :
            PoolSetBatch(RaceSession, RaceType, data, failing)
            /\ UNCHANGED << q, mig >>
    \/ PoolGet(RaceSession, RaceType, BatchIds, {}) /\ UNCHANGED << q, mig >>
    \/ Tick /\ UNCHANGED << q, mig >>

SpecBatch == InitLegacy /\ [][NextBatch]_vars

(* Categories and identifiers whose names overlap, written and read by    *)
(* "s1" through optimized.ts (its device row exists) and by "s2" through   *)
(* part_002.                                                               *)
OverlapTypes == {"sender-key", "sender-key-memory"}
OverlapIds == {"x", "memory-x"}

InitOverlap ==
    /\ InitEmpty
    /\ authRows = {}
    /\ devices = {[id |-> 1, whatsapp_id |-> ToString(regId["s1"]),
                   session |-> "s1", registration_id |-> regId["s1"]]}
    /\ nextId = 2
    /\ deviceId = [s \in Sessions |-> IF s = "s1" THEN 1 ELSE NoDevice]

NextOverlap ==
    \/ \E type \in OverlapTypes, id \in OverlapIds, value \in Values :
            writeKeyData("s1", type, id, value, {}) /\ UNCHANGED << q, mig >>
    \/ \E type \in OverlapTypes, id \in OverlapIds :
            readKeyData("s1", type, {id}, {}) /\ UNCHANGED << q, mig >>
    \/ \E type \in OverlapTypes, id \in OverlapIds, value \in Values :
            LegacySet("s2", type, id, value, {}) /\ UNCHANGED << q, mig >>
    \/ \E type \in OverlapTypes, id \in OverlapIds :
            LegacyGet("s2", type, {id}, {}) /\ UNCHANGED << q, mig >>

SpecOverlap == InitOverlap /\ [][NextOverlap]_vars

NextLegacy ==
    \/ \E s \in Sessions, type \in OptTypes, id \in SetIds,
          value \in Values \cup {Null}, fail \in LegacyFailModes :
            LegacySet(s, type, id, value, fail) /\ UNCHANGED << q, mig >>
    \/ \E s \in Sessions, type \in OptTypes, ids \in LegacyGetIdSets,
          fail \in LegacyFailModes :
            LegacyGet(s, type, ids, fail) /\ UNCHANGED << q, mig >>

SpecLegacy == InitLegacy /\ [][NextLegacy]_vars

NextRace ==
    \/ \E impl \in RaceImpls : RaceStart(impl)
    \/ \E c \in Writers : SetIssued(c)
    \/ StatementApplied
    \/ StatementRetried
    \/ RaceGet
    \/ Tick /\ UNCHANGED << q, mig >>

SpecRace == InitLegacy /\ [][NextRace]_vars

(* A process that starts over a database in which "s1" has its device row  *)
(* and the identifier may have been stored in an earlier run: the caches   *)
(* are empty.                                                              *)
InitMix ==
    /\ regId = [s \in Sessions |-> IF s = "s1" THEN 101 ELSE 102]
    /\ devices = {[id |-> 1, whatsapp_id |-> ToString(regId[RaceSession]),
                   session |-> RaceSession,
                   registration_id |-> regId[RaceSession]]}
    /\ nextId = 2
    /\ deviceId = [s \in Sessions |-> IF s = RaceSession THEN 1 ELSE NoDevice]
    /\ keyCache = EmptyCache
    /\ dataCache = EmptyCache
    /\ now = 0
    /\ hist = << >>
    /\ nops = 0
    /\ mig = MigIdle
    /\ \E impl \in MixImpls, stored \in {Null, V1} :
          /\ q = MixStart(impl)
          /\ authRows = IF impl = "index.ts" /\ stored # Null
                        THEN insertAuth({}, RaceSession, RaceName,
                                        stringifyPlain(stored))
                        ELSE {}
          /\ keyRows = IF impl = "optimized.ts" /\ stored # Null
                       THEN insertKey({}, tableMap(RaceType), MixId,
                                      stringifyReplacer(stored), 1, RaceSession)
                       ELSE {}

NextMix ==
    \/ GetStart
    \/ GetSelected
    \/ GetReturn
    \/ \E value \in Values \cup {Null} : SetStart(value)
    \/ SetApplied
    \/ SetReturn
    \/ Tick /\ UNCHANGED << q, mig >>

SpecMix == InitMix /\ [][NextMix]_vars

(* The stores reading app-state-sync-key entries.  "s1" has its device     *)
(* row; its table may hold a value that the TEXT column of the first       *)
(* schema cut off.                                                         *)
DecodeType == "app-state-sync-key"

InitDecode ==
    /\ regId = [s \in Sessions |-> IF s = "s1" THEN 101 ELSE 102]
    /\ keyCache = EmptyCache
    /\ dataCache = EmptyCache
    /\ now = 0
    /\ hist = << >>
    /\ nops = 0
    /\ q = QIdle
    /\ mig = MigIdle
    /\ authRows = {}
    /\ devices = {[id |-> 1, whatsapp_id |-> ToString(regId["s1"]),
                   session |-> "s1", registration_id |-> regId["s1"]]}
    /\ nextId = 2
    /\ deviceId = [s \in Sessions |-> IF s = "s1" THEN 1 ELSE NoDevice]
    /\ \E cut \in SUBSET {keyRow(tableMap(DecodeType), "3", 1, "s1", Text)} :
          keyRows = cut

NextDecode ==
    \/ \E s \in Sessions, id \in SetIds, value \in AppKeys,
          fail \in ClearFailModes :
            writeKeyData(s, DecodeType, id, value, fail) /\ UNCHANGED << q, mig >>
    \/ \E s \in Sessions, fail \in ClearFailModes :
            readKeyData(s, DecodeType, SetIds, fail) /\ UNCHANGED << q, mig >>
    \/ \E s \in Sessions, id \in SetIds, value \in AppKeys :
            LegacySet(s, DecodeType, id, value, {}) /\ UNCHANGED << q, mig >>
    \/ \E s \in Sessions :
            LegacyGet(s, DecodeType, SetIds, {}) /\ UNCHANGED << q, mig >>
    \/ Tick /\ UNCHANGED << q, mig >>

SpecDecode == InitDecode /\ [][NextDecode]_vars

(* The optimized store reading several identifiers over a table in which  *)
(* entry "3" of "s1" may hold a value that was cut off and entry "4" may   *)
(* hold a value written in full.                                           *)
InitPartial ==
    /\ regId = [s \in Sessions |-> IF s = "s1" THEN 101 ELSE 102]
    /\ keyCache = EmptyCache
    /\ dataCache = EmptyCache
    /\ now = 0
    /\ hist = << >>
    /\ nops = 0
    /\ q = QIdle
    /\ mig = MigIdle
    /\ authRows = {}
    /\ devices = {[id |-> 1, whatsapp_id |-> ToString(regId["s1"]),
                   session |-> "s1", registration_id |-> regId["s1"]]}
    /\ nextId = 2
    /\ deviceId = [s \in Sessions |-> IF s = "s1" THEN 1 ELSE NoDevice]
    /\ \E stored \in SUBSET {keyRow(tableMap("pre-key"), "3", 1, "s1", Text),
                             keyRow(tableMap("pre-key"), "4", 1, "s1",
                                    stringifyReplacer(V1))} :
          keyRows = stored

NextPartial ==
    \/ \E id \in {"3", "4"}, value \in Values :
            writeKeyData("s1", "pre-key", id, value, {}) /\ UNCHANGED << q, mig >>
    \/ \E ids \in GetIdSets :
            readKeyData("s1", "pre-key", ids, {}) /\ UNCHANGED << q, mig >>
    \/ Tick /\ UNCHANGED << q, mig >>

SpecPartial == InitPartial /\ [][NextPartial]_vars

(* The stores reading session entries over a database in which an earlier *)
(* corruption left a bare integer as the payload of entry "3": the         *)
(* optimized store serves "s1", the legacy store serves "s2".              *)
CorruptType == "session"

InitCorrupt ==
    /\ regId = [s \in Sessions |-> IF s = "s1" THEN 101 ELSE 102]
    /\ keyCache = EmptyCache
    /\ dataCache = EmptyCache
    /\ now = 0
    /\ hist = << >>
    /\ nops = 0
    /\ q = QIdle
    /\ mig = MigIdle
    /\ devices = {[id |-> 1, whatsapp_id |-> ToString(regId["s1"]),
                   session |-> "s1", registration_id |-> regId["s1"]]}
    /\ nextId = 2
    /\ deviceId = [s \in Sessions |-> IF s = "s1" THEN 1 ELSE NoDevice]
    /\ \E normalized \in SUBSET {keyRow(tableMap(CorruptType), "3", 1, "s1",
                                         BareInteger)},
          legacy \in SUBSET {[session |-> s, id |-> CorruptType \o "-3",
                              value |-> BareInteger] : s \in Sessions} :
          /\ keyRows = normalized
          /\ authRows = legacy

NextCorrupt ==
    \/ \E id \in SetIds, fail \in ClearFailModes :
            writeKeyData("s1", CorruptType, id, V1, fail) /\ UNCHANGED << q, mig >>
    \/ \E fail \in ClearFailModes :
            readKeyData("s1", CorruptType, SetIds, fail) /\ UNCHANGED << q, mig >>
    \/ \E id \in SetIds :
            LegacySet("s2", CorruptType, id, V1, {}) /\ UNCHANGED << q, mig >>
    \/ LegacyGet("s2", CorruptType, SetIds, {}) /\ UNCHANGED << q, mig >>
    \/ Tick /\ UNCHANGED << q, mig >>

SpecCorrupt == InitCorrupt /\ [][NextCorrupt]_vars

(* fromObject applied to one app-state-sync-key, every field of which may  *)
(* be absent.                                                              *)
KeyBytes == << 1, 2 >>
KeyDataInputs == {Null, Buf(KeyBytes), JArr(KeyBytes), JStr(toBase64(KeyBytes))}
TimestampInputs == {Null, Number(42), JStr(<< 4, 2 >>)}
FingerprintInputs ==
    {Null} \cup {Fingerprint(rawId, currentIndex, deviceIndexes) :
                    rawId \in {Null, Number(0), Number(1)},
                    currentIndex \in {Null, Number(1), Number(2)},
                    deviceIndexes \in {Null, JArr(<< 0, 1 >>)}}

InitNormalize ==
    /\ InitEmpty
    /\ authRows = {}
    /\ devices = {}
    /\ nextId = 1
    /\ deviceId = [s \in Sessions |-> NoDevice]

fromObjectCall(args) ==
    /\ q = QIdle
    /\ q' = [impl |-> "fromObject", args |-> args, message |-> fromObject(args)]
    /\ UNCHANGED << storeVars, mig >>

NextNormalize ==
    \E keyData \in KeyDataInputs, fingerprint \in FingerprintInputs,
       timestamp \in TimestampInputs :
        fromObjectCall(AppDataSync(keyData, fingerprint, timestamp))

SpecNormalize == InitNormalize /\ [][NextNormalize]_vars

(* The credential saved and loaded again.  Of its fields the model keeps   *)
(* the numbers and the flag: registrationId, nextPreKeyId,                 *)
(* accountSyncCounter, registered.                                         *)
Bool(b) == [k |-> "boolean", b |-> b]
AuthCreds(registrationId, nextPreKeyId, accountSyncCounter, registered) ==
    [k |-> "creds", registrationId |-> registrationId,
     nextPreKeyId |-> nextPreKeyId, accountSyncCounter |-> accountSyncCounter,
     registered |-> registered]

(* value || other.                                                         *)
orElse(value, other) ==
    IF value \in {Null, Number(0), Bool(FALSE)} THEN other ELSE value

(* The deviceData of saveDeviceData, as the row of devices holds it: the   *)
(* INT columns take the number or NULL, the BOOLEAN column a TINYINT.      *)
deviceData(creds) ==
    [registration_id |-> orElse(creds.registrationId, Null),
     next_pre_key_id |-> orElse(creds.nextPreKeyId, Null),
     account_sync_counter |-> orElse(creds.accountSyncCounter, Null),
     registered |-> IF orElse(creds.registered, Bool(FALSE)) = Bool(TRUE)
                    THEN Number(1) ELSE Number(0)]

(* The creds that readDeviceData builds from the row of devices.           *)
credsOfDevice(device) ==
    AuthCreds(device.registration_id, device.next_pre_key_id,
              device.account_sync_counter, device.registered)

(* part_003 writeDeviceData: registration_id is a column of its own, the   *)
(* other fields go into account_data as JSON.                              *)
writeDeviceData(creds) ==
    [registration_id |-> creds.registrationId,
     account_data |-> stringifyReplacer(
         [k |-> "account", nextPreKeyId |-> creds.nextPreKeyId,
          accountSyncCounter |-> creds.accountSyncCounter,
          registered |-> creds.registered])]

(* part_003 readDeviceData: initAuthCreds() overlaid with the columns and  *)
(* with the parsed account_data.                                           *)
credsOfAccountData(device) ==
    LET account == parseReviver(stringifyPlain(device.account_data))
    IN AuthCreds(device.registration_id, account.nextPreKeyId,
                 account.accountSyncCounter, account.registered)

CredsStores == {"optimized.ts", "optimized.ts legacy", "part_003"}

(* saveCreds: the credential goes to the row of the store ("optimized.ts   *)
(* legacy": the INSERT into devices failed and writeLegacyData took it).   *)
SaveCreds(impl, creds) ==
    /\ q = QIdle
    /\ q' = [impl |-> impl, saved |-> creds, loaded |-> Null,
             row |-> CASE impl = "optimized.ts" -> deviceData(creds)
                       [] impl = "optimized.ts legacy" -> stringifyReplacer(creds)
                       [] impl = "part_003" -> writeDeviceData(creds)]
    /\ UNCHANGED << storeVars, mig >>

(* The state object is created again and reads the credential: no cache    *)
(* entry exists.                                                           *)
LoadCreds ==
    /\ q.impl \in CredsStores
    /\ q.loaded = Null
    /\ q' = [q EXCEPT !.loaded =
                 CASE q.impl = "optimized.ts" -> credsOfDevice(q.row)
                   [] q.impl = "optimized.ts legacy" ->
                        parseReviver(stringifyPlain(q.row))
                   [] q.impl = "part_003" -> credsOfAccountData(q.row)]
    /\ UNCHANGED << storeVars, mig >>

NextCreds ==
    \/ \E impl \in CredsStores, registrationId \in {Number(101), Number(102)},
          nextPreKeyId \in {Number(1), Number(31)},
          accountSyncCounter \in {Number(0), Number(1), Number(2)},
          registered \in {Bool(FALSE), Bool(TRUE)} :
            SaveCreds(impl, AuthCreds(registrationId, nextPreKeyId,
                                      accountSyncCounter, registered))
    \/ LoadCreds

SpecCreds == InitNormalize /\ [][NextCreds]_vars

(* The optimized store and the clock.  The registration ids are 14 random  *)
(* bits and may be equal; "s1" may have been created over its device row   *)
(* before, which left the credential in deviceCache.                       *)
InitTtl ==
    /\ regId \in {[s \in Sessions |-> IF s = "s1" THEN 101 ELSE 102],
                  [s \in Sessions |-> 101]}
    /\ keyRows = {}
    /\ authRows = {}
    /\ dataCache = EmptyCache
    /\ now = 0
    /\ hist = << >>
    /\ nops = 0
    /\ q = QIdle
    /\ mig = MigIdle
    /\ \E booted \in {{}, {"s1"}} :
          /\ devices = {[id |-> 1, whatsapp_id |-> ToString(regId[s]),
                         session |-> s, registration_id |-> regId[s]] :
                            s \in booted}
          /\ nextId = 1 + Cardinality(booted)
          /\ deviceId = [s \in Sessions |->
                            IF s \in booted THEN 1 ELSE NoDevice]
          /\ keyCache = [c \in {deviceCacheKey(s) : s \in booted} |->
                            [data |-> Creds("s1"), timestamp |-> 0]]

NextTtl ==
    \/ \E s \in Sessions, id \in SetIds, value \in Values :
            writeKeyData(s, "pre-key", id, value, {}) /\ UNCHANGED << q, mig >>
    \/ \E s \in Sessions :
            readKeyData(s, "pre-key", SetIds, {}) /\ UNCHANGED << q, mig >>
    \/ \E s \in Sessions : saveDeviceData(s, {}) /\ UNCHANGED << q, mig >>
    \/ \E s \in Sessions : CreateState(s) /\ UNCHANGED << q, mig >>
    \/ Tick /\ UNCHANGED << q, mig >>

SpecTtl == InitTtl /\ [][NextTtl]_vars

(* A process that uses one of the stores, over databases without tables.   *)
InitConn ==
    /\ regId = [s \in Sessions |-> IF s = "s1" THEN 101 ELSE 102]
    /\ keyRows = {}
    /\ authRows = {}
    /\ devices = {}
    /\ nextId = 1
    /\ deviceId = [s \in Sessions |-> NoDevice]
    /\ keyCache = EmptyCache
    /\ dataCache = EmptyCache
    /\ now = 0
    /\ hist = << >>
    /\ nops = 0
    /\ mig = MigIdle
    /\ \E impl \in ConnImpls : q = ConnStart(impl)

NextConn ==
    \/ \E config \in Configs, schemaFails \in BOOLEAN :
            UseAuthState(config, schemaFails)
    \/ \E h \in 1..MaxHandles : HandleClosed(h)
    \/ \E st \in q.states : closeConnections(st)
    \/ \E st \in q.states : StoreOperation(st)

SpecConn == InitConn /\ [][NextConn]_vars

NextQuery ==
    \/ \E impl \in Impls, configured \in RetryBounds, fails \in 0..MaxFails :
            QueryStart(impl, configured, fails)
    \/ QueryAttempt
    \/ \E connected \in BOOLEAN : QueryReconnect(connected)

SpecQuery == InitLegacy /\ [][NextQuery]_vars

(* Before a migration: the legacy store has written the credential of      *)
(* "s1" and a few of its keys; nothing is normalized yet.                  *)
InitMig ==
    /\ InitEmpty
    /\ devices = {}
    /\ nextId = 1
    /\ deviceId = [s \in Sessions |-> NoDevice]
    /\ \E ids \in {S \in SUBSET LegacyKeyIds : Cardinality(S) <= MaxLegacyRows} :
          authRows = {[session |-> "s1", id |-> "creds",
                       value |-> stringifyReplacer(Creds("s1"))]}
                     \cup {[session |-> "s1", id |-> i,
                            value |-> stringifyReplacer(V1)] : i \in ids}

NextMig ==
    \/ \E s \in Sessions : migrateFromLegacy(s)
    \/ \E s \in Sessions, dry_run \in BOOLEAN : MigrateLegacyAuthData(s, dry_run)
    \/ \E schemaReady \in BOOLEAN : migrateFromOldSchema(schemaReady)
    \/ \E s \in Sessions, target \in Targets : migrateToOptimizedStructure(s, target)

SpecMig == InitMig /\ [][NextMig]_vars

(* A legacy table of several sessions: each may have its credential and  *)
(* at most MaxRowsEach records of keys.                                    *)
InitMulti ==
    /\ InitEmpty
    /\ devices = {}
    /\ nextId = 1
    /\ deviceId = [s \in Sessions |-> NoDevice]
    /\ \E withCreds \in SUBSET Sessions,
          ids \in [Sessions -> {S \in SUBSET LegacyKeyIds :
                                  Cardinality(S) <= MaxRowsEach}] :
          authRows = {[session |-> s, id |-> "creds",
                       value |-> stringifyReplacer(Creds(s))] : s \in withCreds}
                     \cup {[session |-> p[1], id |-> p[2],
                            value |-> stringifyReplacer(V1)] :
                              p \in {x \in Sessions \X LegacyKeyIds :
                                        x[2] \in ids[x[1]]}}

(* The process ends and the store is constructed again: what the last      *)
(* start migrated is no longer on record.                                  *)
Restart ==
    /\ mig # MigIdle
    /\ mig' = MigIdle
    /\ UNCHANGED << storeVars, q >>

(* The legacy table before the first start: the credential of "s1" and at *)
(* most MaxRerunRows records of keys.                                      *)
InitRerun ==
    /\ InitEmpty
    /\ devices = {}
    /\ nextId = 1
    /\ deviceId = [s \in Sessions |-> NoDevice]
    /\ \E ids \in {S \in SUBSET LegacyKeyIds : Cardinality(S) <= MaxRerunRows} :
          authRows = {[session |-> "s1", id |-> "creds",
                       value |-> stringifyReplacer(Creds("s1"))]}
                     \cup {[session |-> "s1", id |-> i,
                            value |-> stringifyReplacer(V1)] : i \in ids}

(* Migration run at one start after another; in between the legacy store   *)
(* may write to its table, which it creates if it is missing.              *)
NextRerun ==
    \/ \E s \in Sessions : migrateFromLegacy(s)
    \/ \E schemaReady \in BOOLEAN : migrateFromOldSchema(schemaReady)
    \/ Restart
    \/ \E s \in Sessions, type \in OptTypes, id \in SetIds :
          LegacySet(s, type, id, V2, {}) /\ UNCHANGED << q, mig >>

SpecRerun == InitRerun /\ [][NextRerun]_vars

(* Before migrateFromLegacy of a store that was already used: the legacy   *)
(* table holds keys of "s1", with or without its credential, and saveCreds *)
(* may run before the migration.                                           *)
InitPremig ==
    /\ InitEmpty
    /\ devices = {}
    /\ nextId = 1
    /\ deviceId = [s \in Sessions |-> NoDevice]
    /\ \E ids \in {S \in SUBSET LegacyKeyIds : Cardinality(S) <= MaxRerunRows},
          withCreds \in BOOLEAN :
          authRows = {[session |-> "s1", id |-> "creds",
                       value |-> stringifyReplacer(Creds("s1"))] :
                          c \in {x \in {TRUE} : withCreds}}
                     \cup {[session |-> "s1", id |-> i,
                            value |-> stringifyReplacer(V1)] : i \in ids}

NextPremig ==
    \/ \E s \in Sessions : saveDeviceData(s, {}) /\ UNCHANGED << q, mig >>
    \/ \E s \in Sessions : migrateFromLegacy(s)
    \/ Restart

SpecPremig == InitPremig /\ [][NextPremig]_vars

(* The engines that migrate every session of the legacy table in one run,  *)
(* run at one start after another.                                         *)
NextMulti ==
    \/ \E target_session \in Sessions \cup {"ALL"}, dry_run \in BOOLEAN :
          MigrateLegacyAuthData(target_session, dry_run)
    \/ \E schemaReady \in BOOLEAN : migrateFromOldSchema(schemaReady)
    \/ Restart

SpecMulti == InitMulti /\ [][NextMulti]_vars

----------------------------------------------------------------------------
(* The properties.                                                         *)

Last == hist[Len(hist)]
Prev == hist[Len(hist) - 1]

(* The last two calls are a set that returned and a get, without failure,  *)
(* of the same session and category that asks for what the set wrote.      *)
SetThenGet ==
    /\ Len(hist) = 2
    /\ Prev.op = "set" /\ Prev.ok
    /\ Last.op = "get" /\ Last.ok /\ Last.fail = {}
    /\ Last.s = Prev.s /\ Last.type = Prev.type /\ Prev.ids \subseteq Last.ids

(* What a result reports for an identifier: its entry, null without one.   *)
Reported(res, id) == IF id \in DOMAIN res THEN res[id] ELSE Null

(* The rows the normalized table and the legacy table hold for a key.      *)
NormalizedRows(s, type, id) ==
    {r \in keyRows : r.table = tableMap(type) /\ r.key_id = id /\ r.session = s}
LegacyRows(s, type, id) ==
    {r \in authRows : r.session = s /\ r.id = type \o "-" \o id}

(* C1: after set was called twice with the same category, identifier and   *)
(* value and both calls returned, get of that identifier returns exactly   *)
(* one entry, carrying that value, and the store holds exactly one row for *)
(* the key.                                                                *)
C1_IdempotentUpsert ==
    (SetThenGet /\ Prev.again /\ Prev.value # Null /\ Prev.fail = {}
        /\ Last.ids = Prev.ids)
    => \A id \in Prev.ids :
          /\ DOMAIN Last.res = {id}
          /\ Last.res[id] = Prev.value
          /\ Cardinality(NormalizedRows(Prev.s, Prev.type, id))
             + Cardinality(LegacyRows(Prev.s, Prev.type, id)) = 1

(* C2: after set with a null value for an identifier that existed has      *)
(* returned, get reports the identifier absent and no row for it remains   *)
(* in the store, whether or not the cache has expired in between.          *)
C2_DeleteViaNull ==
    (SetThenGet /\ Prev.value = Null /\ Prev.old # Null)
    => \A id \in Prev.ids :
          /\ Reported(Last.res, id) = Null
          /\ NormalizedRows(Prev.s, Prev.type, id) = {}
          /\ LegacyRows(Prev.s, Prev.type, id) = {}

(* C3: the keys of the mapping get returns are exactly the requested       *)
(* identifiers that have a row in the store, however many identifiers are  *)
(* requested.                                                              *)
C3_GetReturnsOnlyPresent ==
    (Len(hist) > 0 /\ Last.op = "get" /\ Last.ok)
    => DOMAIN Last.res =
          {id \in Last.ids : LegacyRows(Last.s, Last.type, id) # {}}

(* Byte strings of the round trip: every length class of the base64        *)
(* padding, with the extreme byte values.                                  *)
SampleBytes == {0, 129, 255}
ByteSeqs == UNION {[1..n -> SampleBytes] : n \in 0..3}

(* C4: decoding the encoding of a binary value gives the value back, and a *)
(* binary payload written with set is returned by a later get byte for     *)
(* byte, also when the cache entry has expired.                            *)
C4_BinaryRoundTrip ==
    /\ \A b \in ByteSeqs : parseReviver(stringifyReplacer(Buf(b))) = Buf(b)
    /\ (SetThenGet /\ Prev.value # Null)
       => \A id \in Prev.ids : Reported(Last.res, id) = Prev.value

(* C5: a get that starts after a set of an identifier returned never       *)
(* returns the value the identifier had before that set.                   *)
C5_NoStaleReadAfterWrite ==
    (SetThenGet /\ Prev.old # Null /\ Prev.old # Prev.value)
    => \A id \in Prev.ids : Reported(Last.res, id) # Prev.old

(* A run of query() that is over.                                          *)
QueryOver == q # QIdle /\ q.status \in {"ok", "failed"}

(* C6: when three executions fail and the fourth would succeed, a bound of *)
(* 5 makes the query succeed on the fourth attempt and a bound of 3 makes  *)
(* it fail without a fourth attempt.                                       *)
C6_RetryBound ==
    (QueryOver /\ q.fails = 3 /\ q.impl \in {"part_002", "optimized.ts", "index.ts"})
    => /\ q.bound = 5 => (q.status = "ok" /\ q.attempts = 4)
       /\ q.bound = 3 => (q.status = "failed" /\ q.attempts = 3)

(* C7: a query fails only after the connection was force-refreshed exactly *)
(* once.                                                                   *)
C7_RefreshBeforeFailure ==
    (QueryOver /\ q.status = "failed"
        /\ q.impl \in {"part_002", "optimized.ts", "part_003"})
    => q.refreshes = 1

(* C8: when the statements of a get fail for good, get fails; it does not  *)
(* return normally without the identifiers that are stored.                *)
C8_GetSurfacesFailure ==
    (Len(hist) > 0 /\ Last.op = "get" /\ Last.fail # {} /\ Last.ok)
    => \A id \in Last.ids :
          NormalizedRows(Last.s, Last.type, id) # {}
          => Reported(Last.res, id) # Null

(* A migration that is over and wrote.                                     *)
Migrated(engines) ==
    mig # MigIdle /\ mig.engine \in engines /\ mig.variant # "dry_run"

(* The table of a category in the schema the migration writes to.          *)
TableOf(type) ==
    IF mig.engine = "migrateFromOldSchema" \/ mig.variant = "part_003"
    THEN typeToTable(type) ELSE tableMap(type)

RowsIn(table) == {r \in keyRows : r.table = table}

(* The legacy rows of a category that the migration was run over.           *)
LegacyOf(type) ==
    {r \in mig.legacy : /\ legacyCondition(type, r.id)
                        /\ mig.session \in {"", r.session}}

(* C9: a legacy row whose identifier begins with the sender-key-memory     *)
(* prefix is migrated to the SenderKeyMemory table and never to the        *)
(* SenderKey table; likewise app-state-sync-version and AppStateSyncKey.   *)
C9_PrefixRouting ==
    Migrated({"migrateFromLegacy", "migrateFromOldSchema",
              "migrateToOptimizedStructure"})
    => /\ Cardinality(RowsIn(TableOf("sender-key-memory")))
             = Cardinality(LegacyOf("sender-key-memory"))
       /\ Cardinality(RowsIn(TableOf("app-state-sync-version")))
             = Cardinality(LegacyOf("app-state-sync-version"))
       /\ LegacyOf("sender-key") = {} => RowsIn(TableOf("sender-key")) = {}
       /\ LegacyOf("app-state-sync-key") = {}
             => RowsIn(TableOf("app-state-sync-key")) = {}

(* C10: a legacy row whose identifier is a category's prefix followed by a *)
(* bare identifier is migrated to a row of that category's table, keyed by *)
(* exactly the bare identifier under the session's device id and carrying  *)
(* the legacy value.                                                       *)
C10_PrefixStripped ==
    Migrated({"migrateFromLegacy", "MigrateLegacyAuthData"})
    => \A r \in mig.legacy, type \in KeyTypes, bare \in BareIds :
          (r.session = mig.session /\ r.id = prefixOf(type) \o bare)
          => \E n \in RowsIn(tableMap(type)) :
                /\ n.key_id = bare
                /\ n.session = r.session
                /\ n.device_id = deviceOf(devices, r.session)
                /\ n.value = r.value

(* The old table was renamed aside by the migration.                       *)
RenamedAside == mig.engine = "migrateFromOldSchema"

(* A legacy record has its row in the per-session tables of part_003.      *)
WrittenPerSession(r) ==
    \E n \in keyRows :
        /\ n.session = r.session
        /\ IF r.id = "creds" THEN n.table = "_devices"
           ELSE /\ n.table = getTableConfigFromKey(r.id).suffix
                /\ n.key_id = replaceFirst(r.id, getTableConfigFromKey(r.id).prefix)

(* C11: migration never deletes or changes a row of the legacy table, and  *)
(* the table is renamed aside only after a run in which every legacy       *)
(* record was written to the normalized tables.                            *)
C11_LegacyTablePreserved ==
    (mig # MigIdle
        /\ mig.engine \in {"migrateFromOldSchema", "migrateToOptimizedStructure"})
    => \/ authRows = mig.legacy
       \/ RenamedAside /\ \A r \in mig.legacy : WrittenPerSession(r)

(* The session has its device record: of the optimized store for           *)
(* migrateFromLegacy, of the per-session tables for every session of the   *)
(* old table for migrateFromOldSchema.                                     *)
AlreadyMigrated(engine, s) ==
    IF engine = "migrateFromLegacy"
    THEN \E r \in devices : r.session = s
    ELSE \A a \in authRows :
            \E n \in keyRows : n.table = "_devices" /\ n.session = a.session

(* C12: a migration run for a session that already has its device record   *)
(* changes no row of the device table, the key tables or the legacy table. *)
C12_RerunIsNoOp ==
    [][(mig = MigIdle
          /\ mig'.engine \in {"migrateFromLegacy", "migrateFromOldSchema"}
          /\ AlreadyMigrated(mig'.engine, mig'.session))
       => UNCHANGED << devices, keyRows, authRows >>]_vars

(* The legacy records a dry run counts for a session and category.         *)
Matching(s, type) ==
    {r \in mig.legacy : r.session = s /\ legacyCondition(type, r.id)}

(* C13: a dry run of MigrateLegacyAuthData changes nothing in the device   *)
(* table, the key tables or the legacy table, and every count it reports   *)
(* is the number of legacy records of that session and category.           *)
C13_DryRunWritesNothing ==
    [][(mig = MigIdle /\ mig'.engine = "MigrateLegacyAuthData"
          /\ mig'.variant = "dry_run")
       => /\ UNCHANGED << devices, nextId, keyRows, authRows >>
          /\ \A c \in mig'.counts :
                c.count = Cardinality({r \in authRows :
                              r.session = c.session
                              /\ legacyCondition(c.type, r.id)})]_vars

(* C13 witness: a dry run over a database that already has device and key  *)
(* rows has counted a record.                                              *)
C13_Witness ==
    /\ mig.engine = "MigrateLegacyAuthData"
    /\ mig.variant = "dry_run"
    /\ devices # {}
    /\ \E n \in keyRows : n.device_id # NoDevice
    /\ \E c \in mig.counts : c.count > 0 /\ Matching(c.session, c.type) # {}

(* The session has a device record in one of the normalized schemas.       *)
HasDeviceRecord(s) ==
    \/ \E d \in devices : d.session = s
    \/ \E n \in keyRows : n.table = "_devices" /\ n.session = s

(* C14: after a run over every session of the legacy table, each session   *)
(* that has a credential there has been processed (it has its device       *)
(* record), whatever happened to the other sessions.                       *)
C14_OtherSessionsProcessed ==
    (\/ mig.engine = "migrateFromOldSchema" /\ mig.variant = ""
     \/ /\ mig.engine = "MigrateLegacyAuthData"
        /\ mig.variant = "run" /\ mig.session = "ALL")
    => \A r \in mig.legacy : r.id = "creds" => HasDeviceRecord(r.session)

(* The last call is op and it returned.                                    *)
Returned(op) == Len(hist) > 0 /\ Last.op = op /\ Last.ok

(* C15: after removeCreds returned, the session's credential can no longer *)
(* be read and get finds no key entry of the session, cached or stored.    *)
C15_RemovedIsGone ==
    Returned("removeCreds")
    => /\ readDeviceData(Last.s) = Null
       /\ \A type \in OptTypes, id \in SetIds :
             optVisible(Last.s, type, id) = Null

(* C16: after clear returned, the session has no key entry left in any     *)
(* table, and its device record and credential are what they were.         *)
C16_ClearKeepsCredential ==
    Returned("clear")
    => /\ {r \in keyRows : r.session = Last.s} = {}
       /\ {r \in authRows : r.session = Last.s /\ r.id # "creds"} = {}
       /\ devices = Last.old.devices
       /\ readDeviceData(Last.s) = Last.old.creds

(* C17: clearSenderKeyMemory returns the number of sender-key-memory rows  *)
(* the session had, and afterwards get finds none of them.                 *)
C17_ClearSenderKeyMemoryCount ==
    Returned("clearSenderKeyMemory")
    => /\ Last.res["affectedRows"] = Last.old.memory
       /\ \A id \in SetIds : optVisible(Last.s, "sender-key-memory", id) = Null

(* The entries and the device record of the sessions other than s.         *)
OthersOf(s) ==
    << {r \in keyRows : r.session # s}, {r \in authRows : r.session # s},
       {r \in devices : r.session # s} >>

(* C18: a call of one session changes no entry and no device record of     *)
(* another session, and get returns only identifiers for which the         *)
(* calling session has an entry of its own, cached or stored.              *)
C18_SessionsIsolated ==
    [][nops' # nops
       => LET c == hist'[Len(hist')]
          IN /\ \A s \in Sessions : c.s = s => OthersOf(s)' = OthersOf(s)
             /\ c.op = "get"
                => \A id \in DOMAIN c.res :
                      \/ NormalizedRows(c.s, c.type, id) # {}
                      \/ LegacyRows(c.s, c.type, id) # {}
                      \/ getFromCache(keyCache, getCacheKey(c.type, id, c.s),
                                      now) # Null]_vars

(* C19: once both racing set calls have returned, get of the identifier    *)
(* returns the value of the statement that was executed last, which is one *)
(* of the written values.                                                  *)
C19_LastWriteWins ==
    (q.impl \in RaceImpls /\ q.returned = Writers /\ Len(hist) > 0)
    => /\ q.last \in {written(c) : c \in Writers}
       /\ Reported(Last.res, "3") = q.last

(* C20: a get during which no statement against the legacy table failed    *)
(* returns, whatever payload is stored, and reports each identifier it     *)
(* was asked for as a decoded value or as absent.                          *)
C20_GetNeverThrowsDecode ==
    (Len(hist) > 0 /\ Last.op = "get" /\ "legacy" \notin Last.fail)
    => /\ Last.ok
       /\ \A id \in Last.ids : Reported(Last.res, id) # Thrown

(* The rows of the identifier in the table a get of the session has read:  *)
(* the normalized table for "s1", the legacy table when the statement      *)
(* against the normalized table failed, and for "s2".                      *)
RowsRead(c, id) ==
    IF c.s = "s1" /\ "normalized" \notin c.fail
    THEN NormalizedRows(c.s, c.type, id)
    ELSE LegacyRows(c.s, c.type, id)

(* C21: a get that returned reports no identifier with a payload that is   *)
(* a bare integer, and the table it read holds no such row for the         *)
(* identifiers it reported absent.                                         *)
C21_CorruptTreatedAbsent ==
    (Len(hist) > 0 /\ Last.op = "get" /\ Last.ok)
    => \A id \in Last.ids :
          /\ Reported(Last.res, id) # BareInteger
          /\ Reported(Last.res, id) = Null
                => \A r \in RowsRead(Last, id) : r.value # BareInteger

(* The bytes of a key data field, however it is represented.               *)
BytesOf(keyData) ==
    CASE keyData.k = "Buffer" -> keyData.bytes
      [] keyData.k = "Uint8Array" -> keyData.bytes
      [] keyData.k = "array" -> keyData.items
      [] keyData.k = "string" -> fromBase64(keyData.chars)
      [] OTHER -> << >>

(* A field keeps its value when present and takes the default otherwise.   *)
KeptOr(in, out, default) == out = (IF in = Null THEN default ELSE in)

(* C22: fromObject of a key with a fingerprint returns a message in which  *)
(* key data, rawId, currentIndex and deviceIndexes have their input value, *)
(* or the default (no bytes, 0, 0, no index) when absent, and in which a   *)
(* timestamp given as 42 or as "42" is the number 42.                      *)
C22_FromObjectCanonical ==
    (q.impl = "fromObject" /\ q.args.fingerprint # Null)
    => /\ q.message # Thrown
       /\ BytesOf(q.message.keyData) = BytesOf(q.args.keyData)
       /\ KeptOr(q.args.fingerprint.rawId, q.message.fingerprint.rawId, Number(0))
       /\ KeptOr(q.args.fingerprint.currentIndex,
                 q.message.fingerprint.currentIndex, Number(0))
       /\ KeptOr(q.args.fingerprint.deviceIndexes,
                 q.message.fingerprint.deviceIndexes, JArr(<< >>))
       /\ q.args.timestamp # Null => q.message.timestamp = Number(42)

(* C23: the credential loaded with an empty cache after saveCreds equals   *)
(* the saved one in every field, a counter of 0 and a flag that is false   *)
(* included.                                                               *)
C23_CredsRoundTrip ==
    (q.impl \in CredsStores /\ q.loaded # Null) => q.loaded = q.saved

(* The entry of a cache is absent or older than the TTL.                   *)
Expired(key) ==
    key \notin DOMAIN keyCache \/ now - keyCache[key].timestamp >= CACHE_TTL

(* What the normalized table holds for a key of the device.                *)
StoredKey(d, type, id) ==
    LET rows == {r \in keyRows : r.table = tableMap(type) /\ r.device_id = d
                                 /\ r.key_id = id}
    IN IF rows = {} THEN Null ELSE parseReviver((CHOOSE r \in rows : TRUE).value)

(* C24: a get reports, for an identifier whose cache entry is absent or    *)
(* older than the TTL, what the table holds; and a state object created    *)
(* while the cached credential is absent or older than the TTL gets the    *)
(* credential that the store holds for its session.                        *)
C24_ExpiredIsRefetched ==
    [][nops' # nops
       => LET c == hist'[Len(hist')]
          IN /\ c.op = "get"
                => \A id \in c.ids :
                      Expired(getCacheKey(c.type, id, c.s))
                      => \A s \in Sessions :
                            c.s = s => Reported(c.res, id)
                                       = StoredKey(deviceId'[s], c.type, id)
             /\ c.op = "creds"
                => \A s \in Sessions :
                      (c.s = s /\ Expired(deviceCacheKey(s)))
                      => c.res["creds"] = readDeviceData(s)]_vars

(* C25: a state object just created has the handle of every other state    *)
(* object of its key whose handle is open, and a handle that no state      *)
(* object of another key has.                                              *)
C25_AcquireIdempotentPerKey ==
    (q.last.op = "create" /\ ~q.last.threw)
    => \A st \in q.states :
          IF poolKey(st.config) = poolKey(q.last.config)
          THEN ~q.handles[st.sqlConn].closing => st.sqlConn = q.last.handle
          ELSE st.sqlConn # q.last.handle

(* C26: a get or set of a state object whose handle has been closed        *)
(* succeeds (the database can be reached throughout).                      *)
C26_DeadHandleReconnects ==
    (q.last.op = "store" /\ q.last.wasClosed) => q.last.ok

(* C27: in a process in which no schema creation failed, a statement of    *)
(* the stores with a single connection is executed only where the table    *)
(* of its configuration exists, the schema having been created once for    *)
(* that configuration.                                                     *)
C27_SchemaBeforeUse ==
    (q.impl \in SingleConn /\ q.last.op \in {"create", "store"}
        /\ q.last.executed /\ q.unverified = {})
    => /\ q.last.exists
       /\ q.runs[q.last.config] = 1

(* C28: no statement of a get, set or credential read is executed on a     *)
(* handle on which the schema creation failed.                             *)
C28_SchemaFailureIsFatal ==
    (q.last.op \in {"create", "store"} /\ q.last.executed) => ~q.last.unverified
(* C29: a set whose INSERT violates the foreign key of the normalized      *)
(* table (its device_id names no row of devices), with no other failure,   *)
(* is surfaced: the call throws and the value is not written to the legacy *)
(* table instead.                                                          *)
C29_ConstraintViolationSurfaced ==
    (Len(hist) > 0 /\ Last.op = "set" /\ Last.value # Null /\ Last.fail = {}
        /\ tableMap(Last.type) # NoTable /\ ~deviceExists(deviceId[Last.s]))
    => /\ ~Last.ok
       /\ \A id \in Last.ids :
             \A r \in LegacyRows(Last.s, Last.type, id) :
                r.value # stringifyReplacer(Last.value)

(* C30: once a concurrent get and set of the same identifier have both     *)
(* returned, a non-expired cache entry of the identifier holds the value   *)
(* the store holds, and there is no such entry when the store has no row.  *)
C30_CacheAgreesAfterRace ==
    (q.impl \in MixImpls /\ q.get.pc = "done" /\ q.set.pc = "done")
    => (mixCached(q.impl) # Null
        => /\ mixStored(q.impl) # Null
           /\ mixStored(q.impl) = IF q.impl = "index.ts"
                                  THEN stringifyPlain(mixCached(q.impl))
                                  ELSE stringifyReplacer(mixCached(q.impl)))

(* C31: a value that set reported as written, in the normalized table or   *)
(* in the legacy fallback table, is returned by a later get of the         *)
(* identifier that meets no failure, also after the cache entry expired.   *)
C31_WrittenIsReadable ==
    (SetThenGet /\ Prev.value # Null)
    => \A id \in Prev.ids :
          /\ id \in DOMAIN Last.res
          /\ stringifyReplacer(Last.res[id]) = stringifyReplacer(Prev.value)

(* C32: after a set of the pooled store whose statement failed, a valid    *)
(* cache entry of the identifier holds what the table holds for it, and    *)
(* there is no such entry when the table has no row.                       *)
C32_CacheFollowsFailedWrite ==
    (Len(hist) > 0 /\ Last.op = "set" /\ Last.fail # {})
    => \A id \in Last.ids :
          LET name == Last.type \o "-" \o id
              key == createCacheKey(Last.s, name)
          IN isValidCache(key)
             => selectAuth(authRows, Last.s, name)
                = stringifyPlain(dataCache[key].data)

(* C33: after a set of the pooled store in which a write failed, the table *)
(* holds for every identifier of the call the value it held before the     *)
(* call: the writes of the call that succeeded are rolled back.            *)
C33_FailedBatchRolledBack ==
    (Len(hist) > 0 /\ Last.op = "setBatch" /\ ~Last.ok)
    => \A id \in Last.ids :
          selectAuth(authRows, Last.s, Last.type \o "-" \o id) = Last.old[id]

(* C34: two gets of the same identifiers that follow each other without a  *)
(* write in between return equal mappings, whether each was served from    *)
(* the cache or from the table after the cache entry expired.              *)
C34_CacheTransparent ==
    (Len(hist) = 2 /\ Prev.op = "get" /\ Last.op = "get" /\ Prev.ok /\ Last.ok
        /\ Prev.fail = {} /\ Last.fail = {}
        /\ Last.s = Prev.s /\ Last.type = Prev.type /\ Last.ids = Prev.ids)
    => Last.res = Prev.res

(* C35: when the only write a store has seen is a set of one (category,    *)
(* identifier) of a session, a get of a different (category, identifier)   *)
(* of that session reports it absent: no two triples share a cache entry   *)
(* or a row.                                                               *)
C35_KeysInjective ==
    (Len(hist) = 2 /\ nops = 2 /\ Prev.op = "set" /\ Prev.ok
        /\ Last.op = "get" /\ Last.ok /\ Last.s = Prev.s
        /\ << Last.type, Last.ids >> # << Prev.type, Prev.ids >>)
    => \A id \in Last.ids : Reported(Last.res, id) = Null

(* C36: a get of several identifiers that met no failing statement returns *)
(* every requested identifier whose row in the normalized table decodes,   *)
(* with the decoded value, also when the row of another requested          *)
(* identifier does not decode.                                             *)
C36_UndecodableRowIsLocal ==
    (Len(hist) > 0 /\ Last.op = "get" /\ Last.ok /\ Last.fail = {})
    => \A id \in Last.ids :
          \A r \in NormalizedRows(Last.s, Last.type, id) :
             jsonParse(r.value) # Thrown
             => Reported(Last.res, id) = jsonParse(r.value)

(* C37: when the query of a store operation of part_002 force-refreshed    *)
(* the connection after its last failed attempt, the statement retried     *)
(* after the refresh ran on the handle the refresh opened.                 *)
C37_RetryOnNewHandle ==
    (q.impl = "part_002" /\ q.last.op = "store" /\ q.last.refreshed)
    => q.last.retriedOn = q.slots["conn"]

(* C38: after two saveCreds calls that met no failure, each session that   *)
(* saved has exactly one device row, and it holds the registration id of   *)
(* that session's credential, also when the credentials of the two         *)
(* sessions carry the same registration id.                                *)
C38_OwnDeviceRow ==
    (Len(hist) = 2 /\ Prev.op = "saveCreds" /\ Last.op = "saveCreds"
        /\ Prev.ok /\ Last.ok /\ Prev.fail = {} /\ Last.fail = {})
    => \A s \in {Prev.s, Last.s} :
          /\ Cardinality({r \in devices : r.session = s}) = 1
          /\ \A r \in devices : r.session = s => r.registration_id = regId[s]

(* C39: when migrateFromLegacy has returned for a session, every key entry *)
(* the session had in the legacy table has a row in the table of its       *)
(* category under the device id of the session's own device row, also when *)
(* the device row existed before the call and when the legacy table holds  *)
(* no credential of the session.                                           *)
C39_MigrationComplete ==
    Migrated({"migrateFromLegacy"})
    => \A r \in mig.legacy, type \in KeyTypes :
          (r.session = mig.session /\ legacyCondition(type, r.id))
          => /\ deviceOf(devices, r.session) # NoDevice
             /\ \E n \in RowsIn(tableMap(type)) :
                   /\ n.session = r.session
                   /\ n.device_id = deviceOf(devices, r.session)


(* C40: for each (host, port, database, session) key at most one periodic  *)
(* sender-key-memory cleanup timer is scheduled at any time, however many  *)
(* state objects were created for the key, and when closeConnections has   *)
(* returned no cleanup timer is scheduled for its key.                     *)
C40_OneCleanupTimer ==
    q.impl = "index.ts" =>
        /\ \A c \in Configs :
              Cardinality({t \in q.timers : t.key = poolKey(c)}) <= 1
        /\ q.last.op = "closed" =>
              {t \in q.timers : t.key = q.last.key} = {}

(* C40 witness: closeConnections has returned for a key for which two      *)
(* state objects had been created and whose timer was scheduled.           *)
C40_ClosedAfterTwoObjects ==
    /\ q.impl = "index.ts"
    /\ q.last.op = "closed"
    /\ q.last.hadTimer
    /\ \E c \in Configs : poolKey(c) = q.last.key /\ q.objects[c] >= 2

====
